---- MODULE Spec2Model ----
(***************************************************************************)
(* A model of the native sequence theory solver, smt/theory_seq.cpp.       *)
(*                                                                         *)
(* The theory object's fields are the variables, every callback the host   *)
(* (smt::context) can invoke is one action, and the helpers the callbacks  *)
(* call are operators that thread the part of the state they mutate.       *)
(*                                                                         *)
(* Terms are tagged tuples: <<"var", n>>, <<"str", chars>>, <<"empty">>,   *)
(* <<"concat", a, b>>, <<"skolem", tag, args>>, <<"prefix", a, b>>, ...    *)
(* An enode is identified with its owner term, an enode pair is a pair of  *)
(* terms, and a dependency (an enode_pair_dependency) is the set of enode  *)
(* pairs it linearizes to; the null dependency is the empty set.           *)
(*                                                                         *)
(* The statistics counters (m_stats) are written but never read by the     *)
(* solver and are left out.                                                *)
(***************************************************************************)
EXTENDS Naturals, Integers, Sequences, FiniteSets, TLC

(***************************************************************************)
(* Bounds of the model.                                                    *)
(***************************************************************************)
\* deepest nesting of push_scope_eh the host reaches
MaxScopes == 2
\* most pending equations the host reports into one frame
MaxEqs == 2
\* most inequations recorded
MaxIneqs == 2
\* most axioms queued
MaxAxioms == 4
\* fresh values the model's value factory can hand out
MaxFresh == 1
\* deepest nesting of the terms occurs is called on directly
MaxNesting == 2

(***************************************************************************)
(* Term layer: constructors and recognizers (seq_util, ast_manager).       *)
(***************************************************************************)
Var(n) == <<"var", n>>
Str(s) == <<"str", s>>
Empty == <<"empty">>
Concat(a, b) == <<"concat", a, b>>
Skolem1(tag, a) == <<"skolem", tag, <<a>>>>
Skolem2(tag, a, b) == <<"skolem", tag, <<a, b>>>>
Prefix(a, b) == <<"prefix", a, b>>
Suffix(a, b) == <<"suffix", a, b>>
Contains(a, b) == <<"contains", a, b>>
InRe(a, r) == <<"in_re", a, r>>
Length(a) == <<"length", a>>
Index(s, t) == <<"index", s, t>>
Replace(a, s, t) == <<"replace", a, s, t>>
Extract(s, i, l) == <<"extract", s, i, l>>
Eq(a, b) == <<"eq", a, b>>
Not(a) == <<"not", a>>
Or(a, b) == <<"or", a, b>>
Le(a, b) == <<"le", a, b>>
Add(a, b) == <<"add", a, b>>
mk_int(n) == <<"int", n>>
True == <<"true">>
False == <<"false">>

Tag(t) == t[1]
is_concat(t) == Tag(t) = "concat"
is_string(t) == Tag(t) = "str"
is_empty(t) == Tag(t) = "empty"
is_unit(t) == Tag(t) = "unit"
is_prefix(t) == Tag(t) = "prefix"
is_suffix(t) == Tag(t) = "suffix"
is_contains(t) == Tag(t) = "contains"
is_in_re(t) == Tag(t) = "in_re"
is_length(t) == Tag(t) = "length"
is_skolem(t) == Tag(t) = "skolem"
is_uninterp(t) == Tag(t) = "var"
is_eq(t) == Tag(t) = "eq"
is_true(t) == t = True
is_bool(t) == Tag(t) \in {"prefix", "suffix", "contains", "in_re", "eq", "not", "or", "le", "true", "false"}
is_seq(t) == Tag(t) \in {"var", "str", "empty", "concat", "skolem", "unit", "replace", "extract"}

\* the symbols the constructor installs
m_prefix_sym == "prefix"
m_suffix_sym == "suffix"
m_left_sym == "left"
m_right_sym == "right"
m_contains_left_sym == "contains_left"
m_contains_right_sym == "contains_right"

\* the null dependency and the dependency manager's leaf and join
NoDep == {}
mk_leaf(n1, n2) == {<<n1, n2>>}
mk_join(d1, d2) == d1 \cup d2
linearize(d) == d

\* the literal the characters of a prefix of s of length k spell
SubStr(s, from, to) == [i \in 1..(to - from + 1) |-> s[from + i - 1]]

(***************************************************************************)
(* The host's term utilities: concatenation lists, the rewriter            *)
(* (m_rewrite) and the structural equality reducer (reduce_eq).            *)
(***************************************************************************)
RECURSIVE get_concat(_)
get_concat(e) ==
  IF is_concat(e) THEN get_concat(e[2]) \o get_concat(e[3]) ELSE <<e>>

RECURSIVE mk_concat_list(_)
mk_concat_list(es) ==
  IF Len(es) = 0 THEN Empty
  ELSE IF Len(es) = 1 THEN es[1]
  ELSE Concat(es[1], mk_concat_list(Tail(es)))

\* a literal or the empty sequence, and the characters it spells
is_value(t) == is_string(t) \/ is_empty(t)
Chars(t) == IF is_string(t) THEN t[2] ELSE <<>>
is_nil(t) == is_empty(t) \/ t = Str(<<>>)

\* empties dropped and adjacent literals folded
RECURSIVE NormAtoms(_)
NormAtoms(es) ==
  IF es = <<>> THEN <<>>
  ELSE LET h == Head(es)
           rest == NormAtoms(Tail(es))
       IN IF is_nil(h) THEN rest
          ELSE IF is_string(h) /\ rest # <<>> /\ is_string(Head(rest))
               THEN <<Str(h[2] \o Head(rest)[2])>> \o Tail(rest)
               ELSE <<h>> \o rest

IsPrefixOf(s, t) == Len(s) <= Len(t) /\ SubStr(t, 1, Len(s)) = s
IsSuffixOf(s, t) == Len(s) <= Len(t) /\ SubStr(t, Len(t) - Len(s) + 1, Len(t)) = s
IsInfixOf(s, t) ==
  Len(s) <= Len(t) /\ \E i \in 0..(Len(t) - Len(s)) : SubStr(t, i + 1, i + Len(s)) = s

RECURSIVE SumLengths(_)
SumLengths(es) ==
  IF Len(es) = 1 THEN Length(es[1]) ELSE Add(Length(es[1]), SumLengths(Tail(es)))

RECURSIVE CountChars(_)
CountChars(es) ==
  IF es = <<>> THEN 0
  ELSE (IF is_string(Head(es)) THEN Len(Head(es)[2]) ELSE 0) + CountChars(Tail(es))

NonValues(es) == SelectSeq(es, LAMBDA a : ~is_value(a))

\* the length of a rewritten sequence term, simplified
RewriteLength(a) ==
  LET es == get_concat(a)
      n == CountChars(es)
      vs == NonValues(es)
  IN IF vs = <<>> THEN mk_int(n)
     ELSE IF n = 0 THEN SumLengths(vs)
     ELSE Add(SumLengths(vs), mk_int(n))

RECURSIVE Rewrite(_)
Rewrite(t) ==
  IF is_concat(t) THEN mk_concat_list(NormAtoms(get_concat(Concat(Rewrite(t[2]), Rewrite(t[3])))))
  ELSE IF t = Str(<<>>) THEN Empty
  ELSE IF is_eq(t) THEN
    LET a == Rewrite(t[2])
        b == Rewrite(t[3])
    IN IF a = b THEN True
       ELSE IF is_value(a) /\ is_value(b) THEN False
       ELSE Eq(a, b)
  ELSE IF is_prefix(t) THEN
    LET a == Rewrite(t[2])
        b == Rewrite(t[3])
    IN IF is_empty(a) THEN True
       ELSE IF is_value(a) /\ is_value(b)
            THEN (IF IsPrefixOf(Chars(a), Chars(b)) THEN True ELSE False)
       ELSE Prefix(a, b)
  ELSE IF is_suffix(t) THEN
    LET a == Rewrite(t[2])
        b == Rewrite(t[3])
    IN IF is_empty(a) THEN True
       ELSE IF is_value(a) /\ is_value(b)
            THEN (IF IsSuffixOf(Chars(a), Chars(b)) THEN True ELSE False)
       ELSE Suffix(a, b)
  ELSE IF is_contains(t) THEN
    LET a == Rewrite(t[2])
        b == Rewrite(t[3])
    IN IF is_empty(a) THEN True
       ELSE IF is_value(a) /\ is_value(b)
            THEN (IF IsInfixOf(Chars(a), Chars(b)) THEN True ELSE False)
       ELSE Contains(a, b)
  ELSE IF is_length(t) THEN RewriteLength(Rewrite(t[2]))
  ELSE t

\* reduce_eq peels equal atoms and equal literal characters off the back of
\* both atom lists; [ok, ls, rs, change]
RECURSIVE PeelBack(_, _, _)
PeelBack(ls, rs, change) ==
  IF ls = <<>> \/ rs = <<>> THEN [ok |-> TRUE, ls |-> ls, rs |-> rs, change |-> change]
  ELSE LET l == ls[Len(ls)]
           r == rs[Len(rs)]
           lf == SubSeq(ls, 1, Len(ls) - 1)
           rf == SubSeq(rs, 1, Len(rs) - 1)
       IN IF l = r THEN PeelBack(lf, rf, TRUE)
          ELSE IF is_nil(l) THEN PeelBack(lf, rs, TRUE)
          ELSE IF is_nil(r) THEN PeelBack(ls, rf, TRUE)
          ELSE IF is_string(l) /\ is_string(r) THEN
            LET s1 == l[2]
                s2 == r[2]
                n == IF Len(s1) < Len(s2) THEN Len(s1) ELSE Len(s2)
            IN IF SubStr(s1, Len(s1) - n + 1, Len(s1)) # SubStr(s2, Len(s2) - n + 1, Len(s2))
               THEN [ok |-> FALSE, ls |-> ls, rs |-> rs, change |-> TRUE]
               ELSE PeelBack(
                      IF Len(s1) = n THEN lf ELSE lf \o <<Str(SubStr(s1, 1, Len(s1) - n))>>,
                      IF Len(s2) = n THEN rf ELSE rf \o <<Str(SubStr(s2, 1, Len(s2) - n))>>,
                      TRUE)
          ELSE [ok |-> TRUE, ls |-> ls, rs |-> rs, change |-> change]

\* ... and off the front
RECURSIVE PeelFront(_, _, _)
PeelFront(ls, rs, change) ==
  IF ls = <<>> \/ rs = <<>> THEN [ok |-> TRUE, ls |-> ls, rs |-> rs, change |-> change]
  ELSE LET l == ls[1]
           r == rs[1]
           lt == Tail(ls)
           rt == Tail(rs)
       IN IF l = r THEN PeelFront(lt, rt, TRUE)
          ELSE IF is_nil(l) THEN PeelFront(lt, rs, TRUE)
          ELSE IF is_nil(r) THEN PeelFront(ls, rt, TRUE)
          ELSE IF is_string(l) /\ is_string(r) THEN
            LET s1 == l[2]
                s2 == r[2]
                n == IF Len(s1) < Len(s2) THEN Len(s1) ELSE Len(s2)
            IN IF SubStr(s1, 1, n) # SubStr(s2, 1, n)
               THEN [ok |-> FALSE, ls |-> ls, rs |-> rs, change |-> TRUE]
               ELSE PeelFront(
                      IF Len(s1) = n THEN lt ELSE <<Str(SubStr(s1, n + 1, Len(s1)))>> \o lt,
                      IF Len(s2) = n THEN rt ELSE <<Str(SubStr(s2, n + 1, Len(s2)))>> \o rt,
                      TRUE)
          ELSE [ok |-> TRUE, ls |-> ls, rs |-> rs, change |-> change]

\* one side is exhausted: every atom left on the other side must be empty
set_empty(es) ==
  IF \E i \in 1..Len(es) : is_string(es[i]) /\ es[i][2] # <<>>
  THEN [ok |-> FALSE, lhs |-> <<>>, rhs |-> <<>>]
  ELSE LET vs == SelectSeq(es, LAMBDA a : ~is_nil(a))
       IN [ok |-> TRUE, lhs |-> vs, rhs |-> [i \in 1..Len(vs) |-> Empty]]

\* reduce_eq(l, r, lhs, rhs): [ok, lhs, rhs]; ok is false when l = r is
\* structurally impossible
reduce_eq(l, r) ==
  LET Result(f) ==
        IF ~f.ok THEN [ok |-> FALSE, lhs |-> <<>>, rhs |-> <<>>]
        ELSE IF f.ls = <<>> /\ f.rs = <<>> THEN [ok |-> TRUE, lhs |-> <<>>, rhs |-> <<>>]
        ELSE IF f.ls = <<>> THEN set_empty(f.rs)
        ELSE IF f.rs = <<>> THEN set_empty(f.ls)
        ELSE IF ~f.change THEN [ok |-> TRUE, lhs |-> <<l>>, rhs |-> <<r>>]
        ELSE [ok |-> TRUE, lhs |-> <<mk_concat_list(f.ls)>>, rhs |-> <<mk_concat_list(f.rs)>>]
      Front(b) == Result(IF b.ok THEN PeelFront(b.ls, b.rs, b.change) ELSE b)
  IN Front(PeelBack(get_concat(l), get_concat(r), FALSE))

(***************************************************************************)
(* State.                                                                  *)
(***************************************************************************)
VARIABLES
  m_rep,                  \* solution_map: m_map, m_updates, m_lhs, m_rhs, m_deps, m_limit
  m_exclude,              \* exclusion_table: m_table, m_lhs, m_rhs, m_limit
  m_lhs, m_rhs, m_deps,   \* the stacks of pending-equation frames (parallel arrays)
  m_ineqs,                \* recorded disequalities and negated predicates
  m_axioms,               \* the axiom queue
  m_axioms_head,          \* the axiom cursor
  m_branch_variable_head, \* the round-robin cursor of branch_variable
  m_incomplete,           \* the incompleteness flag
  m_model_completion,     \* model-completion mode
  m_trail_stack,          \* trail_stack: m_trail (undo records), m_scopes (marks)
  ctx,                    \* the host: inconsistent, fresh, what the last callback called
                          \* on it (out) and returned (status), and per scope its enodes,
                          \* the theory axioms it holds and the facts it has reported
  halted,                 \* "no", or the macro that ended the process
  problem,                \* the assertions the host is working on
  saved,                  \* per open scope, the stores as push_scope_eh found them
  probe                   \* a direct call of occurs: its arguments a, b and what it
                          \* returned ("none" before the call)

vars == <<m_rep, m_exclude, m_lhs, m_rhs, m_deps, m_ineqs, m_axioms, m_axioms_head,
          m_branch_variable_head, m_incomplete, m_model_completion, m_trail_stack,
          ctx, halted, problem, saved, probe>>

\* the theory object and its host as one value, threaded through the helpers;
\* out collects the calls the running callback makes to the host, arg_order is
\* the order the running code evaluates the arguments of a call in
Cur ==
  [m_rep |-> m_rep, m_exclude |-> m_exclude, m_lhs |-> m_lhs, m_rhs |-> m_rhs,
   m_deps |-> m_deps, m_ineqs |-> m_ineqs, m_axioms |-> m_axioms,
   m_axioms_head |-> m_axioms_head, m_branch_variable_head |-> m_branch_variable_head,
   m_incomplete |-> m_incomplete, m_model_completion |-> m_model_completion,
   m_trail_stack |-> m_trail_stack, ctx |-> ctx, halted |-> halted, out |-> <<>>,
   arg_order |-> "ltr"]

\* the order in which a call evaluates the two expand() arguments of one argument
\* list is the compiler's choice
ArgOrders == {"ltr", "rtl"}
CurIn(order) == [Cur EXCEPT !.arg_order = order]

Back(stack) == stack[Len(stack)]
SetBack(stack, v) == [stack EXCEPT ![Len(stack)] = v]
PopBack(seq) == SubSeq(seq, 1, Len(seq) - 1)
Emit(S, call) == [S EXCEPT !.out = Append(@, call)]

(***************************************************************************)
(* The host (smt::context) as the theory sees it.                          *)
(***************************************************************************)
RECURSIVE UnionAll(_)
UnionAll(sets) == IF sets = <<>> THEN {} ELSE Head(sets) \cup UnionAll(Tail(sets))

\* ctx.e_internalized / ctx.b_internalized
Enodes(c) == UnionAll([i \in 1..Len(c.scopes) |-> c.scopes[i].enodes])
Facts(c) == UnionAll([i \in 1..Len(c.scopes) |-> c.scopes[i].facts])
Clauses(c) == UnionAll([i \in 1..Len(c.scopes) |-> c.scopes[i].clauses])
e_internalized(S, t) == t \in Enodes(S.ctx)

\* the host records an enode (or boolean variable) at the current scope level
mk_enode(S, t) ==
  IF e_internalized(S, t) THEN S
  ELSE [S EXCEPT !.ctx.scopes[Len(S.ctx.scopes)].enodes = @ \cup {t}]

(***************************************************************************)
(* m_trail_stack: value_trail and push_back_vector records.                *)
(***************************************************************************)
trail_push(S, rec) == [S EXCEPT !.m_trail_stack.m_trail = Append(@, rec)]

\* undo one record
trail_undo(S, rec) ==
  IF rec[1] = "value_incomplete" THEN [S EXCEPT !.m_incomplete = rec[2]]
  ELSE IF rec[1] = "value_axioms_head" THEN [S EXCEPT !.m_axioms_head = rec[2]]
  ELSE IF rec[1] = "pop_axioms" THEN [S EXCEPT !.m_axioms = PopBack(@)]
  ELSE [S EXCEPT !.m_ineqs = PopBack(@)]

RECURSIVE trail_undo_to(_, _)
trail_undo_to(S, mark) ==
  IF Len(S.m_trail_stack.m_trail) <= mark THEN S
  ELSE LET rec == Back(S.m_trail_stack.m_trail)
           S1 == [S EXCEPT !.m_trail_stack.m_trail = PopBack(@)]
       IN trail_undo_to(trail_undo(S1, rec), mark)

\* trail_stack::pop_scope(num_scopes)
trail_pop_scope(S, num_scopes) ==
  LET sc == S.m_trail_stack.m_scopes
      mark == sc[Len(sc) - num_scopes + 1]
      S1 == trail_undo_to(S, mark)
  IN [S1 EXCEPT !.m_trail_stack.m_scopes = SubSeq(sc, 1, Len(sc) - num_scopes)]

(***************************************************************************)
(* solution_map                                                            *)
(***************************************************************************)
MapInsert(map, e, value) == [k \in DOMAIN map \cup {e} |-> IF k = e THEN value ELSE map[k]]
MapRemove(map, e) == [k \in DOMAIN map \ {e} |-> map[k]]

solution_map_add_trail(rep, op, l, r, d) ==
  [rep EXCEPT !.m_updates = Append(@, op), !.m_lhs = Append(@, l),
              !.m_rhs = Append(@, r), !.m_deps = Append(@, d)]

solution_map_update(rep, e, r, d) ==
  LET rep1 == IF e \in DOMAIN rep.m_map
              THEN solution_map_add_trail(rep, "DEL", e, rep.m_map[e][1], rep.m_map[e][2])
              ELSE rep
      rep2 == [rep1 EXCEPT !.m_map = MapInsert(@, e, <<r, d>>)]
  IN solution_map_add_trail(rep2, "INS", e, r, d)

\* the while loop of find: [result, d, num_finds]
RECURSIVE FindWalk(_, _, _, _)
FindWalk(map, result, d, num_finds) ==
  IF result \in DOMAIN map
  THEN FindWalk(map, map[result][1], mk_join(d, map[result][2]), num_finds + 1)
  ELSE [result |-> result, d |-> d, num_finds |-> num_finds]

\* find without path compression
solution_map_find_without_compression(rep, e) ==
  LET Found(w) == [rep |-> rep, result |-> w.result, d |-> w.d]
  IN Found(FindWalk(rep.m_map, e, NoDep, 0))

\* find(e, d): [rep, result, d]
solution_map_find(rep, e) ==
  LET Found(w) ==
        [rep |-> IF w.num_finds > 1 THEN solution_map_update(rep, e, w.result, w.d) ELSE rep,
         result |-> w.result, d |-> w.d]
  IN Found(FindWalk(rep.m_map, e, NoDep, 0))

\* the undo loop of pop_scope: records i, i-1, ..., start+1 (1-based)
RECURSIVE SolutionMapUndo(_, _, _, _)
SolutionMapUndo(rep, map, i, start) ==
  IF i <= start THEN map
  ELSE SolutionMapUndo(rep,
         IF rep.m_updates[i] = "INS"
         THEN MapRemove(map, rep.m_lhs[i])
         ELSE MapInsert(map, rep.m_lhs[i], <<rep.m_rhs[i], rep.m_deps[i]>>),
         i - 1, start)

solution_map_pop_scope(rep, num_scopes) ==
  IF num_scopes = 0 THEN rep
  ELSE LET start == rep.m_limit[Len(rep.m_limit) - num_scopes + 1]
       IN [m_map |-> SolutionMapUndo(rep, rep.m_map, Len(rep.m_updates), start),
           m_updates |-> SubSeq(rep.m_updates, 1, start),
           m_lhs |-> SubSeq(rep.m_lhs, 1, start),
           m_rhs |-> SubSeq(rep.m_rhs, 1, start),
           m_deps |-> SubSeq(rep.m_deps, 1, start),
           m_limit |-> SubSeq(rep.m_limit, 1, Len(rep.m_limit) - num_scopes)]

solution_map_push_scope(rep) == [rep EXCEPT !.m_limit = Append(@, Len(rep.m_updates))]

(***************************************************************************)
(* exclusion_table                                                         *)
(***************************************************************************)
\* expr::get_id: terms are numbered in the order the AST table lists them
RECURSIVE Serial(_)
RECURSIVE SerialAll(_)
TagNo(t) ==
  CASE Tag(t) = "empty" -> 1 [] Tag(t) = "str" -> 2 [] Tag(t) = "var" -> 3
    [] Tag(t) = "concat" -> 4 [] Tag(t) = "skolem" -> 5 [] OTHER -> 6
CharNo(c) == IF c = "a" THEN 1 ELSE IF c = "b" THEN 2 ELSE 3
NameNo(n) ==
  CASE n = "x" -> 1 [] n = "y" -> 2 [] n = "z" -> 3 [] n = m_prefix_sym -> 4
    [] n = m_suffix_sym -> 5 [] n = m_left_sym -> 6 [] n = m_right_sym -> 7
    [] n = m_contains_left_sym -> 8 [] n = m_contains_right_sym -> 9 [] OTHER -> 10
SerialAll(ts) == IF ts = <<>> THEN <<>> ELSE Serial(Head(ts)) \o SerialAll(Tail(ts))
Serial(t) ==
  CASE Tag(t) = "str" -> <<2, Len(t[2])>> \o [i \in 1..Len(t[2]) |-> CharNo(t[2][i])]
    [] Tag(t) = "var" -> <<3, NameNo(t[2])>>
    [] Tag(t) = "skolem" -> <<5, NameNo(t[2])>> \o SerialAll(t[3])
    [] OTHER -> <<TagNo(t)>> \o SerialAll(Tail(t))

RECURSIVE LexLess(_, _)
LexLess(u, v) ==
  IF u = <<>> \/ v = <<>> THEN v # <<>>
  ELSE IF Head(u) # Head(v) THEN Head(u) < Head(v)
  ELSE LexLess(Tail(u), Tail(v))

\* e->get_id() > r->get_id()
IdGreater(e, r) ==
  LET Greater(u, v) == IF Len(u) # Len(v) THEN Len(u) > Len(v) ELSE LexLess(v, u)
  IN Greater(Serial(e), Serial(r))

\* exclusion_table::update recording a pair without looking it up first
exclusion_table_update_without_lookup(ex, e0, r0) ==
  LET Update(e, r) ==
        IF e # r
        THEN [ex EXCEPT !.m_lhs = Append(@, e), !.m_rhs = Append(@, r),
                        !.m_table = @ \cup {<<e, r>>}]
        ELSE ex
  IN IF IdGreater(e0, r0) THEN Update(r0, e0) ELSE Update(e0, r0)

exclusion_table_update(ex, e0, r0) ==
  LET Update(e, r) ==
        IF e # r /\ <<e, r>> \notin ex.m_table
        THEN [ex EXCEPT !.m_lhs = Append(@, e), !.m_rhs = Append(@, r),
                        !.m_table = @ \cup {<<e, r>>}]
        ELSE ex
  IN IF IdGreater(e0, r0) THEN Update(r0, e0) ELSE Update(e0, r0)

exclusion_table_contains(ex, e0, r0) ==
  IF IdGreater(e0, r0) THEN <<r0, e0>> \in ex.m_table ELSE <<e0, r0>> \in ex.m_table

exclusion_table_pop_scope(ex, num_scopes) ==
  IF num_scopes = 0 THEN ex
  ELSE LET start == ex.m_limit[Len(ex.m_limit) - num_scopes + 1]
       IN [m_table |-> ex.m_table \ {<<ex.m_lhs[i], ex.m_rhs[i]>> : i \in (start + 1)..Len(ex.m_lhs)},
           m_lhs |-> SubSeq(ex.m_lhs, 1, start),
           m_rhs |-> SubSeq(ex.m_rhs, 1, start),
           m_limit |-> SubSeq(ex.m_limit, 1, Len(ex.m_limit) - num_scopes)]

exclusion_table_push_scope(ex) == [ex EXCEPT !.m_limit = Append(@, Len(ex.m_lhs))]

(***************************************************************************)
(* Internalization.                                                        *)
(***************************************************************************)
Args(t) ==
  CASE Tag(t) \in {"str", "var", "int", "empty", "true", "false", "re"} -> <<>>
    [] Tag(t) = "skolem" -> t[3]
    [] OTHER -> Tail(t)

\* the terms of the sequence family, for which the host calls internalize_term
IsSeqFamily(t) ==
  Tag(t) \in {"str", "empty", "unit", "concat", "skolem", "prefix", "suffix", "contains",
              "in_re", "re", "length", "index", "replace", "extract"}

is_var(a) == is_uninterp(a) \/ is_skolem(a)

\* set_incomplete recording the old value whether or not the flag is set
set_incomplete_always_trails(S, term) ==
  [trail_push(S, <<"value_incomplete", S.m_incomplete>>) EXCEPT !.m_incomplete = TRUE]

set_incomplete(S, term) ==
  IF ~S.m_incomplete
  THEN [trail_push(S, <<"value_incomplete", S.m_incomplete>>) EXCEPT !.m_incomplete = TRUE]
  ELSE S

RECURSIVE internalize_term(_, _)
RECURSIVE ctx_internalize(_, _)
RECURSIVE ctx_internalize_all(_, _)

\* ctx.internalize(t, false): the host calls back into internalize_term for a
\* term of this theory it has not seen, and internalizes the children of any other
ctx_internalize(S, t) ==
  IF e_internalized(S, t) THEN S
  ELSE IF IsSeqFamily(t) THEN internalize_term(S, t)
  ELSE mk_enode(ctx_internalize_all(S, Args(t)), t)

ctx_internalize_all(S, ts) ==
  IF ts = <<>> THEN S ELSE ctx_internalize_all(ctx_internalize(S, Head(ts)), Tail(ts))

\* internalize_term counting length among the supported terms
internalize_term_supports_length(S, term) ==
  LET S1 == ctx_internalize_all(S, Args(term))
      S2 == mk_enode(S1, term)
  IN IF ~is_concat(term) /\ ~is_string(term) /\ ~is_empty(term) /\ ~is_unit(term)
        /\ ~is_suffix(term) /\ ~is_prefix(term) /\ ~is_contains(term) /\ ~is_skolem(term)
        /\ ~is_length(term)
     THEN set_incomplete(S2, term)
     ELSE S2

internalize_term(S, term) ==
  LET S1 == ctx_internalize_all(S, Args(term))
      S2 == mk_enode(S1, term)
  IN IF ~is_concat(term) /\ ~is_string(term) /\ ~is_empty(term) /\ ~is_unit(term)
        /\ ~is_suffix(term) /\ ~is_prefix(term) /\ ~is_contains(term) /\ ~is_skolem(term)
     THEN set_incomplete(S2, term)
     ELSE S2

(***************************************************************************)
(* Canonicalizer.                                                          *)
(***************************************************************************)
\* the value factory's k-th fresh value; it has none left after MaxFresh
FreshValue(k) == Str([i \in 1..k |-> "f"])
get_fresh_value(S) ==
  IF S.ctx.fresh < MaxFresh THEN FreshValue(S.ctx.fresh + 1) ELSE <<"null">>

RECURSIVE expand(_, _, _)

\* the two recursive calls in one argument list, in the build's order
expand_args(S, e1, e2, eqs) ==
  LET Ltr(a, b) == [S |-> b.S, e1 |-> a.e, e2 |-> b.e, eqs |-> b.eqs]
      Rtl(b, a) == [S |-> a.S, e1 |-> a.e, e2 |-> b.e, eqs |-> a.eqs]
      First(a) == Ltr(a, expand(a.S, e2, a.eqs))
      Second(b) == Rtl(b, expand(b.S, e1, b.eqs))
  IN IF S.arg_order = "ltr" THEN First(expand(S, e1, eqs)) ELSE Second(expand(S, e2, eqs))

\* expand following one solution-map entry instead of the whole chain
expand_single_edge(S, e0, eqs0) ==
  LET Binary(e, r) == [S |-> r.S, e |-> <<Tag(e), r.e1, r.e2>>, eqs |-> r.eqs]
      Found(S1, e, eqs) ==
        IF is_concat(e) THEN Binary(e, expand_args(S1, e[2], e[3], eqs))
        ELSE IF is_empty(e) \/ is_string(e) THEN [S |-> S1, e |-> e, eqs |-> eqs]
        ELSE IF is_eq(e) \/ is_prefix(e) \/ is_suffix(e) \/ is_contains(e)
        THEN Binary(e, expand_args(S1, e[2], e[3], eqs))
        ELSE [S |-> S1, e |-> e, eqs |-> eqs]
  IN IF e0 \in DOMAIN S.m_rep.m_map
     THEN Found(S, S.m_rep.m_map[e0][1], mk_join(eqs0, S.m_rep.m_map[e0][2]))
     ELSE Found(S, e0, eqs0)

\* expand(e, eqs): [S, e, eqs]
expand(S, e0, eqs0) ==
  LET Binary(e, r) == [S |-> r.S, e |-> <<Tag(e), r.e1, r.e2>>, eqs |-> r.eqs]
      Found(S1, e, eqs) ==
        IF is_concat(e) THEN Binary(e, expand_args(S1, e[2], e[3], eqs))
        ELSE IF is_empty(e) \/ is_string(e) THEN [S |-> S1, e |-> e, eqs |-> eqs]
        ELSE IF is_eq(e) \/ is_prefix(e) \/ is_suffix(e) \/ is_contains(e)
        THEN Binary(e, expand_args(S1, e[2], e[3], eqs))
        ELSE IF S1.m_model_completion /\ is_var(e) /\ get_fresh_value(S1) # <<"null">>
        THEN [S |-> [S1 EXCEPT !.m_rep = solution_map_update(@, e, get_fresh_value(S1), NoDep),
                               !.ctx.fresh = @ + 1],
              e |-> get_fresh_value(S1), eqs |-> eqs]
        ELSE [S |-> S1, e |-> e, eqs |-> eqs]
      Find(f) == Found([S EXCEPT !.m_rep = f.rep], f.result, mk_join(eqs0, f.d))
  IN Find(solution_map_find(S.m_rep, e0))

\* canonize returning the witness it was given, without the entries followed
canonize_forgets_witness(S, e, eqs) ==
  LET Rewritten(r) == [S |-> r.S, e |-> Rewrite(r.e), eqs |-> eqs]
  IN Rewritten(expand(S, e, eqs))

canonize(S, e, eqs) ==
  LET Rewritten(r) == [S |-> r.S, e |-> Rewrite(r.e), eqs |-> r.eqs]
  IN Rewritten(expand(S, e, eqs))

(***************************************************************************)
(* Reporting to the host.                                                  *)
(***************************************************************************)
\* ctx.assign of a literal: the host is in conflict when the literal is false
\* propagate_lit with an empty justification
propagate_lit_unjustified(S, dep, lit, litIsFalse) ==
  LET S1 == Emit(Emit(S, <<"mark_as_relevant", lit>>), <<"assign", lit, {}>>)
  IN [S1 EXCEPT !.ctx.inconsistent = @ \/ litIsFalse]

propagate_lit(S, dep, lit, litIsFalse) ==
  LET S1 == Emit(Emit(S, <<"mark_as_relevant", lit>>), <<"assign", lit, linearize(dep)>>)
  IN [S1 EXCEPT !.ctx.inconsistent = @ \/ litIsFalse]

set_conflict(S, dep) ==
  [Emit(S, <<"set_conflict", linearize(dep)>>) EXCEPT !.ctx.inconsistent = TRUE]

propagate_eq_dep(S, dep, n1, n2) == Emit(S, <<"assign_eq", n1, n2, {}, linearize(dep)>>)

(***************************************************************************)
(* Simplification and unit solving.                                        *)
(***************************************************************************)
is_left_select(a) == is_skolem(a) /\ a[2] = m_left_sym
is_right_select(a) == is_skolem(a) /\ a[2] = m_right_sym

RECURSIVE StripSelect(_)
StripSelect(a) ==
  IF is_left_select(a) \/ is_right_select(a) THEN StripSelect(a[3][1]) ELSE a

RECURSIVE occurs(_, _)
occurs(a0, b) ==
  LET a == StripSelect(a0)
  IN IF is_concat(b) THEN occurs(a, b[2]) \/ occurs(a, b[3])
     ELSE a = StripSelect(b)

\* add_solution that also binds r to l when r is a variable
add_solution_both_ways(S, l, r, deps) ==
  LET Propagated(S1) ==
        IF e_internalized(S1, l) /\ e_internalized(S1, r)
        THEN propagate_eq_dep(S1, deps, l, r)
        ELSE S1
      Back1(rep) == IF is_var(r) THEN solution_map_update(rep, r, l, deps) ELSE rep
  IN Propagated([S EXCEPT !.m_rep = Back1(solution_map_update(@, l, r, deps))])

add_solution(S, l, r, deps) ==
  LET Propagated(S1) ==
        IF e_internalized(S1, l) /\ e_internalized(S1, r)
        THEN propagate_eq_dep(S1, deps, l, r)
        ELSE S1
  IN Propagated([S EXCEPT !.m_rep = solution_map_update(@, l, r, deps)])

\* push_back on the three arrays of the top frame
PushEqs(S, lhs, rhs, deps) ==
  [S EXCEPT !.m_lhs = SetBack(@, Back(@) \o lhs),
            !.m_rhs = SetBack(@, Back(@) \o rhs),
            !.m_deps = SetBack(@, Back(@) \o [i \in 1..Len(lhs) |-> deps])]

\* simplify_eq(l, r, deps): [S, ret]
simplify_eq(S, l, r, deps) ==
  LET Reduced(rh, red) ==
        IF ~red.ok THEN [S |-> set_conflict(rh.S, rh.eqs), ret |-> TRUE]
        ELSE IF Len(red.lhs) = 1 /\ l = red.lhs[1] /\ Len(red.rhs) = 1 /\ r = red.rhs[1]
        THEN [S |-> rh.S, ret |-> FALSE]
        ELSE [S |-> PushEqs(rh.S, red.lhs, red.rhs, rh.eqs), ret |-> TRUE]
      Canonized(lh, rh) == Reduced(rh, reduce_eq(lh.e, rh.e))
      Left(lh) == Canonized(lh, canonize(lh.S, r, lh.eqs))
  IN Left(canonize(S, l, deps))

\* solve_unit_eq that recognizes a trivial equation but never binds a variable
solve_unit_eq_without_binding(S, l, r, deps) ==
  LET Canonized(lh, rh) == [S |-> rh.S, ret |-> lh.e = rh.e]
      Left(lh) == Canonized(lh, canonize(lh.S, r, lh.eqs))
  IN Left(canonize(S, l, deps))

\* solve_unit_eq(l, r, deps): [S, ret]
solve_unit_eq(S, l, r, deps) ==
  LET Canonized(lh, rh) ==
        IF lh.e = rh.e THEN [S |-> rh.S, ret |-> TRUE]
        ELSE IF is_var(lh.e) /\ ~occurs(lh.e, rh.e)
        THEN [S |-> add_solution(rh.S, lh.e, rh.e, rh.eqs), ret |-> TRUE]
        ELSE IF is_var(rh.e) /\ ~occurs(rh.e, lh.e)
        THEN [S |-> add_solution(rh.S, rh.e, lh.e, rh.eqs), ret |-> TRUE]
        ELSE [S |-> rh.S, ret |-> FALSE]
      Left(lh) == Canonized(lh, canonize(lh.S, r, lh.eqs))
  IN Left(canonize(S, l, deps))

\* the body of the loop of pre_process_eqs once the equation at i is done with:
\* the last entry takes its place and the arrays shrink by one
\* the removal of pre_process_eqs without the pop_back of the dependency array
RemoveEq_keeps_last_dependency(S, i) ==
  LET lhs == Back(S.m_lhs)
      rhs == Back(S.m_rhs)
      swap == i # Len(lhs)
      lhs1 == IF swap THEN [lhs EXCEPT ![i] = lhs[Len(lhs)]] ELSE lhs
      rhs1 == IF swap THEN [rhs EXCEPT ![i] = rhs[Len(rhs)]] ELSE rhs
  IN [S EXCEPT !.m_lhs = SetBack(@, PopBack(lhs1)),
               !.m_rhs = SetBack(@, PopBack(rhs1))]

RemoveEq(S, i) ==
  LET lhs == Back(S.m_lhs)
      rhs == Back(S.m_rhs)
      deps == Back(S.m_deps)
      swap == i # Len(lhs)
      lhs1 == IF swap THEN [lhs EXCEPT ![i] = lhs[Len(lhs)]] ELSE lhs
      rhs1 == IF swap THEN [rhs EXCEPT ![i] = rhs[Len(rhs)]] ELSE rhs
      deps1 == IF swap THEN [deps EXCEPT ![i] = deps[Len(deps)]] ELSE deps
  IN [S EXCEPT !.m_lhs = SetBack(@, PopBack(lhs1)),
               !.m_rhs = SetBack(@, PopBack(rhs1)),
               !.m_deps = SetBack(@, PopBack(deps1))]

\* the for loop of pre_process_eqs from index i (1-based): [S, change]
RECURSIVE PreProcessLoop(_, _, _, _)
PreProcessLoop(S, simplify_or_solve, i, change) ==
  IF S.ctx.inconsistent \/ i > Len(Back(S.m_lhs)) THEN [S |-> S, change |-> change]
  ELSE LET Step(res) ==
             IF res.ret
             THEN PreProcessLoop(RemoveEq(res.S, i), simplify_or_solve,
                                 IF i # Len(Back(res.S.m_lhs)) THEN i ELSE i + 1, TRUE)
             ELSE PreProcessLoop(res.S, simplify_or_solve, i + 1, change)
           Equation(l, r, d) ==
             Step(IF simplify_or_solve THEN simplify_eq(S, l, r, d)
                  ELSE solve_unit_eq(S, l, r, d))
       IN Equation(Back(S.m_lhs)[i], Back(S.m_rhs)[i], Back(S.m_deps)[i])

pre_process_eqs(S, simplify_or_solve) == PreProcessLoop(S, simplify_or_solve, 1, FALSE)
simplify_eqs(S) == pre_process_eqs(S, TRUE)
solve_basic_eqs(S) == pre_process_eqs(S, FALSE)

\* the while loop of simplify_and_solve_eqs
RECURSIVE SolveLoop(_, _)
SolveLoop(S, change) ==
  IF S.ctx.inconsistent THEN [S |-> S, change |-> change]
  ELSE LET Solved(b) ==
             IF b.change THEN SolveLoop(simplify_eqs(b.S).S, TRUE)
             ELSE [S |-> b.S, change |-> change]
       IN Solved(solve_basic_eqs(S))

\* simplify_and_solve_eqs returning after its first simplification pass
simplify_and_solve_eqs_without_solving(S) == simplify_eqs(S)

simplify_and_solve_eqs(S) ==
  LET Simplified(r) == SolveLoop(r.S, r.change)
  IN Simplified(simplify_eqs(S))

(***************************************************************************)
(* Final check.                                                            *)
(***************************************************************************)
\* the for loop of check_ineqs from index i (1-based): [S, ret]; answer is
\* whether the host holds the literal of a refuted disequality false already
RECURSIVE CheckIneqsLoop(_, _, _)
CheckIneqsLoop(S, i, answer) ==
  IF i > Len(S.m_ineqs) THEN [S |-> S, ret |-> TRUE]
  ELSE LET Canonized(a, b) ==
             IF is_true(b.e)
             THEN [S |-> propagate_lit(ctx_internalize(b.S, a), b.eqs, a, ~is_eq(a) \/ answer),
                   ret |-> FALSE]
             ELSE CheckIneqsLoop(b.S, i + 1, answer)
       IN Canonized(S.m_ineqs[i], canonize(S, S.m_ineqs[i], NoDep))

check_ineqs(S, answer) == CheckIneqsLoop(S, 1, answer)

\* assume_equality that does not consult the exclusion table
assume_equality_ignores_exclusions(S, l, r, answer) ==
  [S |-> Emit(ctx_internalize(S, r), <<"assume_eq", l, r, answer>>), ret |-> TRUE]

\* assume_equality(l, r): [S, ret]; answer is what ctx.assume_eq returns
assume_equality(S, l, r, answer) ==
  IF exclusion_table_contains(S.m_exclude, l, r) THEN [S |-> S, ret |-> FALSE]
  ELSE [S |-> Emit(ctx_internalize(S, r), <<"assume_eq", l, r, answer>>), ret |-> TRUE]

\* the candidates find_branch_candidate builds from rs[j..], in order, with v0
\* the concatenation accumulated so far; the list ends where l occurs in rs[j]
RECURSIVE BranchCandidates(_, _, _, _)
BranchCandidates(l, rs, j, v0) ==
  IF j > Len(rs) \/ occurs(l, rs[j]) THEN <<>>
  ELSE LET s == IF is_string(rs[j]) THEN rs[j][2] ELSE <<>>
           prefixes == [k \in 1..(IF Len(s) > 0 THEN Len(s) - 1 ELSE 0) |->
                          Concat(v0, Str(SubStr(s, 1, k)))]
           v1 == IF j = 1 THEN rs[1] ELSE Concat(v0, rs[j])
       IN prefixes \o <<v1>> \o BranchCandidates(l, rs, j + 1, v1)

\* the first candidate assume_equality accepts, if any
RECURSIVE AssumeFirst(_, _, _, _)
AssumeFirst(S, l, cands, answer) ==
  IF cands = <<>> THEN [S |-> S, ret |-> FALSE]
  ELSE LET Assumed(r) == IF r.ret THEN r ELSE AssumeFirst(S, l, Tail(cands), answer)
       IN Assumed(assume_equality(S, l, Head(cands), answer))

find_branch_candidate(S, l, rs, answer) ==
  IF ~is_var(l) THEN [S |-> S, ret |-> FALSE]
  ELSE AssumeFirst(S, l, <<Empty>> \o BranchCandidates(l, rs, 1, Empty), answer)

\* the for loop of branch_variable from i (0-based, as the cursor is): [S, ret]
RECURSIVE BranchLoop(_, _, _)
BranchLoop(S, i, answer) ==
  IF i >= Len(Back(S.m_lhs)) THEN [S |-> S, ret |-> FALSE]
  ELSE LET Found(k, c) == [S |-> [c.S EXCEPT !.m_branch_variable_head = k], ret |-> TRUE]
           Right(k, c2) == IF c2.ret THEN Found(k, c2) ELSE BranchLoop(S, i + 1, answer)
           Left(k, ls, rs, c1) ==
             IF c1.ret THEN Found(k, c1)
             ELSE Right(k, find_branch_candidate(S, rs[1], ls, answer))
           Equation(k, ls, rs) == Left(k, ls, rs, find_branch_candidate(S, ls[1], rs, answer))
           At(k) == Equation(k, get_concat(Back(S.m_lhs)[k + 1]), get_concat(Back(S.m_rhs)[k + 1]))
       IN At((i + S.m_branch_variable_head) % Len(Back(S.m_lhs)))

branch_variable(S, answer) == BranchLoop(S, 0, answer)

split_variable(S) == [S |-> S, ret |-> FALSE]

\* final_check_eh giving up on pending equations only
final_check_eh_ignores_incomplete(S, answer) ==
  LET Split(sv) ==
        IF sv.ret THEN [S |-> sv.S, status |-> "FC_CONTINUE"]
        ELSE IF sv.S.ctx.inconsistent THEN [S |-> sv.S, status |-> "FC_CONTINUE"]
        ELSE IF Len(Back(sv.S.m_lhs)) > 0
        THEN [S |-> sv.S, status |-> "FC_GIVEUP"]
        ELSE [S |-> sv.S, status |-> "FC_DONE"]
      Branch(bv) ==
        IF bv.ret THEN [S |-> bv.S, status |-> "FC_CONTINUE"]
        ELSE Split(split_variable(bv.S))
      Solve(ss) ==
        IF ss.change THEN [S |-> ss.S, status |-> "FC_CONTINUE"]
        ELSE IF ss.S.ctx.inconsistent THEN [S |-> ss.S, status |-> "FC_CONTINUE"]
        ELSE Branch(branch_variable(ss.S, answer))
      Ineqs(ci) ==
        IF ~ci.ret THEN [S |-> ci.S, status |-> "FC_CONTINUE"]
        ELSE Solve(simplify_and_solve_eqs(ci.S))
  IN Ineqs(check_ineqs(S, answer))

\* final_check_eh(): [S, status]
final_check_eh(S, answer) ==
  LET Split(sv) ==
        IF sv.ret THEN [S |-> sv.S, status |-> "FC_CONTINUE"]
        ELSE IF sv.S.ctx.inconsistent THEN [S |-> sv.S, status |-> "FC_CONTINUE"]
        ELSE IF Len(Back(sv.S.m_lhs)) > 0 \/ sv.S.m_incomplete
        THEN [S |-> sv.S, status |-> "FC_GIVEUP"]
        ELSE [S |-> sv.S, status |-> "FC_DONE"]
      Branch(bv) ==
        IF bv.ret THEN [S |-> bv.S, status |-> "FC_CONTINUE"]
        ELSE Split(split_variable(bv.S))
      Solve(ss) ==
        IF ss.change THEN [S |-> ss.S, status |-> "FC_CONTINUE"]
        ELSE IF ss.S.ctx.inconsistent THEN [S |-> ss.S, status |-> "FC_CONTINUE"]
        ELSE Branch(branch_variable(ss.S, answer))
      Ineqs(ci) ==
        IF ~ci.ret THEN [S |-> ci.S, status |-> "FC_CONTINUE"]
        ELSE Solve(simplify_and_solve_eqs(ci.S))
  IN Ineqs(check_ineqs(S, answer))

(***************************************************************************)
(* Axiom factory.                                                          *)
(***************************************************************************)
can_propagate(S) == S.m_axioms_head < Len(S.m_axioms)

create_axiom(S, e) ==
  [trail_push(S, <<"pop_axioms">>) EXCEPT !.m_axioms = Append(@, e)]

RECURSIVE create_axioms(_, _)
create_axioms(S, es) ==
  IF es = <<>> THEN S ELSE create_axioms(create_axiom(S, Head(es)), Tail(es))

mk_skolem(name, e1, e2) == Skolem2(name, e1, e2)
Or3(a, b, c) == <<"or", a, b, c>>
And3(a, b, c) == <<"and", a, b, c>>
Concat3(a, b, c) == Concat(a, Concat(b, c))

tightest_prefix(s, x) ==
  LET s1 == Skolem1("first", s)
      c == Skolem1("last", s)
  IN And3(Eq(s, Concat(s1, c)), Eq(Length(c), mk_int(1)), Not(Contains(s, Concat(x, s1))))

\* the formulas add_len_axiom creates for n = |x|, in order
LenAxioms(n) ==
  LET x == n[2]
      eq1 == Eq(mk_int(0), n)
      eq2 == Eq(x, Empty)
      nr == Rewrite(n)
  IN <<Le(mk_int(0), n), Or(Not(eq1), eq2), Or(Not(eq2), eq1)>>
     \o (IF nr # n THEN <<Eq(n, nr)>> ELSE <<>>)

\* add_len_axiom without the equation between |x| and its normal form
add_len_axiom_without_nf(S, n) == create_axioms(S, SubSeq(LenAxioms(n), 1, 3))

add_len_axiom(S, n) == create_axioms(S, LenAxioms(n))

\* the formulas add_indexof_axiom creates for i = indexof(s, t), in order
IndexofAxioms(i) ==
  LET s1 == i[2]
      t == i[3]
      x == mk_skolem(m_contains_left_sym, s1, t)
      y == mk_skolem(m_contains_right_sym, s1, t)
      eq_empty == Eq(s1, Empty)
      cnt == Contains(s1, t)
  IN <<Or(cnt, Eq(i, mk_int(0 - 1))),
       Or3(Not(cnt), Not(eq_empty), Eq(i, mk_int(0))),
       Or3(Not(cnt), eq_empty, Eq(t, Concat3(x, s1, y))),
       Or3(Not(cnt), eq_empty, tightest_prefix(s1, x))>>

add_indexof_axiom(S, i) == create_axioms(S, IndexofAxioms(i))

\* the formulas add_replace_axiom creates for r = replace(a, s, t), in order
ReplaceAxioms(r) ==
  LET a == r[2]
      s1 == r[3]
      t == r[4]
      cnt == Contains(s1, a)
      x == mk_skolem(m_contains_left_sym, s1, a)
      y == mk_skolem(m_contains_right_sym, s1, a)
  IN <<Or(Not(cnt), Eq(a, Concat3(x, s1, y))),
       Or(Not(cnt), Eq(r, Concat3(x, t, y))),
       Or(Not(cnt), tightest_prefix(s1, x)),
       Or(cnt, Eq(r, a))>>

add_replace_axiom(S, r) == create_axioms(S, ReplaceAxioms(r))

add_extract_axiom(S, e) == [S EXCEPT !.halted = "NOT_IMPLEMENTED_YET"]

add_len_concat_axiom(S, c) ==
  create_axiom(S, Eq(Add(Length(c[2]), Length(c[3])), Length(c)))

\* the length function new_eq_len_concat looks for: it is never set
f_len == <<"null">>

\* the enodes of f_len whose root is n1's: the length applications on n1
LengthEnodesOf(S, n1) == {t \in Enodes(S.ctx) : is_length(t) /\ t[2] = n1}

new_eq_len_concat(S, n1, n2) ==
  IF ~is_seq(n1) THEN S
  ELSE IF f_len = <<"null">> THEN S
  ELSE IF LengthEnodesOf(S, n1) # {} /\ is_concat(n2) THEN add_len_concat_axiom(S, n2)
  ELSE S

\* assert_axiom(e); conflict is whether the host finds the clause false
assert_axiom(S, e, conflict) ==
  IF is_true(e) THEN S
  ELSE LET S1 == Emit(Emit(ctx_internalize(S, e), <<"mark_as_relevant", e>>),
                      <<"mk_th_axiom", e>>)
       IN [S1 EXCEPT !.ctx.scopes[Len(S.ctx.scopes)].clauses = @ \cup {e},
                     !.ctx.inconsistent = @ \/ conflict]

\* the while loop of propagate; the host runs into a conflict on the
\* conflictAt-th axiom asserted in this call (0: on none)
RECURSIVE PropagateLoop(_, _, _)
PropagateLoop(S, n, conflictAt) ==
  IF S.m_axioms_head < Len(S.m_axioms) /\ ~S.ctx.inconsistent
  THEN LET e == S.m_axioms[S.m_axioms_head + 1]
           S1 == assert_axiom(S, e, n + 1 = conflictAt)
       IN PropagateLoop([S1 EXCEPT !.m_axioms_head = @ + 1], n + 1, conflictAt)
  ELSE S

propagate(S, conflictAt) == PropagateLoop(S, 0, conflictAt)

(***************************************************************************)
(* Event handlers.                                                         *)
(***************************************************************************)
\* propagate_eq(bool_var v, e1, e2)
propagate_eq_lit(S, v, e1, e2) ==
  Emit(ctx_internalize(S, e1), <<"assign_eq", e1, e2, {v}, {}>>)

\* assign_eq decomposing a suffix atom the way it decomposes a prefix atom
assign_eq_suffix_as_prefix(S, e, isTrue) ==
  IF isTrue
  THEN IF is_prefix(e) \/ is_suffix(e)
       THEN propagate_eq_lit(S, e, Concat(e[2], mk_skolem(m_prefix_sym, e[2], e[3])), e[3])
       ELSE IF is_contains(e)
       THEN propagate_eq_lit(S, e,
              Concat(Concat(mk_skolem(m_contains_left_sym, e[2], e[3]), e[2]),
                     mk_skolem(m_contains_right_sym, e[2], e[3])), e[3])
       ELSE IF is_in_re(e) THEN [S EXCEPT !.halted = "NOT_IMPLEMENTED_YET"]
       ELSE [S EXCEPT !.halted = "UNREACHABLE"]
  ELSE [trail_push(S, <<"pop_ineqs">>) EXCEPT !.m_ineqs = Append(@, e)]

\* assign_eq(v, is_true), e the atom of v
assign_eq(S, e, isTrue) ==
  IF isTrue
  THEN IF is_prefix(e)
       THEN propagate_eq_lit(S, e, Concat(e[2], mk_skolem(m_prefix_sym, e[2], e[3])), e[3])
       ELSE IF is_suffix(e)
       THEN propagate_eq_lit(S, e, Concat(mk_skolem(m_suffix_sym, e[2], e[3]), e[2]), e[3])
       ELSE IF is_contains(e)
       THEN propagate_eq_lit(S, e,
              Concat(Concat(mk_skolem(m_contains_left_sym, e[2], e[3]), e[2]),
                     mk_skolem(m_contains_right_sym, e[2], e[3])), e[3])
       ELSE IF is_in_re(e) THEN [S EXCEPT !.halted = "NOT_IMPLEMENTED_YET"]
       ELSE [S EXCEPT !.halted = "UNREACHABLE"]
  ELSE [trail_push(S, <<"pop_ineqs">>) EXCEPT !.m_ineqs = Append(@, e)]

\* new_eq_eh without the test that the two enodes differ
new_eq_eh_for_any_pair(S, n1, n2) ==
  new_eq_len_concat(new_eq_len_concat(PushEqs(S, <<n1>>, <<n2>>, mk_leaf(n1, n2)), n1, n2),
                    n2, n1)

new_eq_eh(S, n1, n2) ==
  IF n1 # n2
  THEN new_eq_len_concat(new_eq_len_concat(PushEqs(S, <<n1>>, <<n2>>, mk_leaf(n1, n2)), n1, n2),
                         n2, n1)
  ELSE S

new_diseq_eh(S, e1, e2) ==
  [trail_push(S, <<"pop_ineqs">>) EXCEPT !.m_ineqs = Append(@, Eq(e1, e2)),
                                         !.m_exclude = exclusion_table_update(@, e1, e2)]

\* push_scope_eh without the value trail of the axiom cursor
push_scope_eh_forgets_cursor(S) ==
  [S EXCEPT !.m_rep = solution_map_push_scope(@),
            !.m_exclude = exclusion_table_push_scope(@),
            !.m_trail_stack.m_scopes = Append(@, Len(S.m_trail_stack.m_trail)),
            !.m_lhs = Append(@, Back(@)),
            !.m_rhs = Append(@, Back(@)),
            !.m_deps = Append(@, Back(@))]

push_scope_eh(S) ==
  LET S1 == [S EXCEPT !.m_rep = solution_map_push_scope(@),
                      !.m_exclude = exclusion_table_push_scope(@),
                      !.m_trail_stack.m_scopes = Append(@, Len(S.m_trail_stack.m_trail))]
      S2 == trail_push(S1, <<"value_axioms_head", S1.m_axioms_head>>)
  IN [S2 EXCEPT !.m_lhs = Append(@, Back(@)),
                !.m_rhs = Append(@, Back(@)),
                !.m_deps = Append(@, Back(@))]

\* pop_scope_eh without the exclusion table's pop_scope
pop_scope_eh_keeps_exclusions(S, num_scopes) ==
  LET S1 == trail_pop_scope(S, num_scopes)
  IN [S1 EXCEPT !.m_rep = solution_map_pop_scope(@, num_scopes),
                !.m_lhs = SubSeq(@, 1, Len(@) - num_scopes),
                !.m_rhs = SubSeq(@, 1, Len(@) - num_scopes),
                !.m_deps = SubSeq(@, 1, Len(@) - num_scopes)]

pop_scope_eh(S, num_scopes) ==
  LET S1 == trail_pop_scope(S, num_scopes)
  IN [S1 EXCEPT !.m_rep = solution_map_pop_scope(@, num_scopes),
                !.m_exclude = exclusion_table_pop_scope(@, num_scopes),
                !.m_lhs = SubSeq(@, 1, Len(@) - num_scopes),
                !.m_rhs = SubSeq(@, 1, Len(@) - num_scopes),
                !.m_deps = SubSeq(@, 1, Len(@) - num_scopes)]

restart_eh(S) == S

relevant_eh(S, n) == IF is_length(n) THEN add_len_axiom(S, n) ELSE S

\* mk_value(n, mg): [S, e]
\* mk_value without the flet: the mode stays on when it returns
mk_value_leaves_mode_on(S, n) ==
  LET Canonized(r) == [S |-> r.S, e |-> r.e]
  IN Canonized(canonize([S EXCEPT !.m_model_completion = TRUE], n, NoDep))

mk_value(S, n) ==
  LET Canonized(r) == [S |-> [r.S EXCEPT !.m_model_completion = S.m_model_completion], e |-> r.e]
  IN Canonized(canonize([S EXCEPT !.m_model_completion = TRUE], n, NoDep))

(***************************************************************************)
(* The host's workloads: the assertions it internalizes and reports.       *)
(***************************************************************************)
X == Var("x")
Y == Var("y")
StrA == Str(<<"a">>)
StrB == Str(<<"b">>)
StrAB == Str(<<"a", "b">>)
StrBA == Str(<<"b", "a">>)
Re == <<"re", "r">>

\* x."a" = "ba", x."a" = "ab", x != "b"
UnitProblem ==
  [terms |-> <<Concat(X, StrA), StrBA, StrB, StrAB>>,
   eqs |-> {<<Concat(X, StrA), StrBA>>, <<Concat(X, StrA), StrAB>>},
   diseqs |-> {<<X, StrB>>},
   atoms |-> {}]

\* x.y = "ab", x != empty
BranchProblem ==
  [terms |-> <<Concat(X, Y), StrAB, Empty>>,
   eqs |-> {<<Concat(X, Y), StrAB>>},
   diseqs |-> {<<X, Empty>>},
   atoms |-> {}]

\* x = y, y = "a", x != "a"
ChainProblem ==
  [terms |-> <<X, Y, StrA>>,
   eqs |-> {<<X, Y>>, <<Y, StrA>>},
   diseqs |-> {<<X, StrA>>},
   atoms |-> {}]

\* prefix(x, "ab"), contains("b", x), x = "a"
PrefixProblem ==
  [terms |-> <<Prefix(X, StrAB), Contains(StrB, X), StrA>>,
   eqs |-> {<<X, StrA>>},
   diseqs |-> {},
   atoms |-> {Prefix(X, StrAB), Contains(StrB, X)}]

\* suffix("a", x), x in r
RegexProblem ==
  [terms |-> <<Suffix(StrA, X), InRe(X, Re)>>,
   eqs |-> {},
   diseqs |-> {},
   atoms |-> {Suffix(StrA, X), InRe(X, Re)}]

\* |x|, |"ab"|, indexof(x, y), x = y."a"
AxiomProblem ==
  [terms |-> <<Length(X), Concat(Y, StrA), Length(StrAB), Index(X, Y)>>,
   eqs |-> {<<X, Concat(Y, StrA)>>},
   diseqs |-> {},
   atoms |-> {}]

\* x."a" = y."a", x = y
TwinProblem ==
  [terms |-> <<Concat(X, StrA), Concat(Y, StrA)>>,
   eqs |-> {<<Concat(X, StrA), Concat(Y, StrA)>>, <<X, Y>>},
   diseqs |-> {},
   atoms |-> {}]

Problems == {UnitProblem, BranchProblem, ChainProblem, PrefixProblem, RegexProblem,
             AxiomProblem, TwinProblem}

(***************************************************************************)
(* Initial state: the theory as its constructor leaves it.                 *)
(***************************************************************************)
\* what scope reversibility is about: the materialized contents of the stores
Stores(S) ==
  [map |-> S.m_rep.m_map, table |-> S.m_exclude.m_table,
   lhs |-> Back(S.m_lhs), rhs |-> Back(S.m_rhs), deps |-> Back(S.m_deps),
   ineqs |-> S.m_ineqs, incomplete |-> S.m_incomplete,
   axioms |-> S.m_axioms, head |-> S.m_axioms_head]

EmptyScope == [enodes |-> {}, clauses |-> {}, facts |-> {}]

Init ==
  /\ m_rep = [m_map |-> <<>>, m_updates |-> <<>>, m_lhs |-> <<>>, m_rhs |-> <<>>,
              m_deps |-> <<>>, m_limit |-> <<>>]
  /\ m_exclude = [m_table |-> {}, m_lhs |-> <<>>, m_rhs |-> <<>>, m_limit |-> <<>>]
  /\ m_lhs = <<<<>>>>
  /\ m_rhs = <<<<>>>>
  /\ m_deps = <<<<>>>>
  /\ m_ineqs = <<>>
  /\ m_axioms = <<>>
  /\ m_axioms_head = 0
  /\ m_branch_variable_head = 0
  /\ m_incomplete = FALSE
  /\ m_model_completion = FALSE
  /\ m_trail_stack = [m_trail |-> <<>>, m_scopes |-> <<>>]
  /\ ctx = [inconsistent |-> FALSE, fresh |-> 0, out |-> <<>>, status |-> "",
            scopes |-> <<EmptyScope>>]
  /\ halted = "no"
  /\ problem \in Problems
  /\ saved = <<>>
  /\ probe = [a |-> Var("x"), b |-> Var("x"), ret |-> "none"]

\* a callback left S; status is what a final check returned, "model" after
\* mk_value and the empty string after any other callback
Commit(S, status) ==
  /\ m_rep' = S.m_rep
  /\ m_exclude' = S.m_exclude
  /\ m_lhs' = S.m_lhs
  /\ m_rhs' = S.m_rhs
  /\ m_deps' = S.m_deps
  /\ m_ineqs' = S.m_ineqs
  /\ m_axioms' = S.m_axioms
  /\ m_axioms_head' = S.m_axioms_head
  /\ m_branch_variable_head' = S.m_branch_variable_head
  /\ m_incomplete' = S.m_incomplete
  /\ m_model_completion' = S.m_model_completion
  /\ m_trail_stack' = S.m_trail_stack
  /\ ctx' = [S.ctx EXCEPT !.out = S.out, !.status = status]
  /\ halted' = S.halted
  /\ UNCHANGED <<problem, probe>>

\* the host calls while the process runs and, but for a pop, while it is consistent
Running == halted = "no" /\ ~ctx.inconsistent

AddFact(S, fact) == [S EXCEPT !.ctx.scopes[Len(S.ctx.scopes)].facts = @ \cup {fact}]

(***************************************************************************)
(* Actions: the callbacks.                                                 *)
(***************************************************************************)
\* the host internalizes the terms of its assertions in the order it meets them
NextTerm ==
  LET missing == {i \in 1..Len(problem.terms) : problem.terms[i] \notin Enodes(ctx)}
  IN IF missing = {} THEN 0 ELSE CHOOSE i \in missing : \A j \in missing : i <= j

InternalizeTerm ==
  /\ Running
  /\ NextTerm # 0
  /\ Commit(ctx_internalize(Cur, problem.terms[NextTerm]), "")
  /\ UNCHANGED saved

AssignEq ==
  /\ Running
  /\ \E e \in problem.atoms, isTrue \in BOOLEAN :
       /\ e \in Enodes(ctx)
       /\ <<"lit", e, TRUE>> \notin Facts(ctx)
       /\ <<"lit", e, FALSE>> \notin Facts(ctx)
       /\ Len(m_ineqs) < MaxIneqs
       /\ Commit(assign_eq(AddFact(Cur, <<"lit", e, isTrue>>), e, isTrue), "")
  /\ UNCHANGED saved

NewEqEh ==
  /\ Running
  /\ \E p \in problem.eqs :
       /\ {p[1], p[2]} \subseteq Enodes(ctx)
       /\ <<"eq", p[1], p[2]>> \notin Facts(ctx)
       /\ <<"diseq", p[1], p[2]>> \notin Facts(ctx)
       /\ Len(Back(m_lhs)) < MaxEqs
       /\ Commit(new_eq_eh(AddFact(Cur, <<"eq", p[1], p[2]>>), p[1], p[2]), "")
  /\ UNCHANGED saved

NewDiseqEh ==
  /\ Running
  /\ \E p \in problem.diseqs :
       /\ {p[1], p[2]} \subseteq Enodes(ctx)
       /\ <<"eq", p[1], p[2]>> \notin Facts(ctx)
       /\ <<"diseq", p[1], p[2]>> \notin Facts(ctx)
       /\ Len(m_ineqs) < MaxIneqs
       /\ Commit(new_diseq_eh(AddFact(Cur, <<"diseq", p[1], p[2]>>), p[1], p[2]), "")
  /\ UNCHANGED saved

PushScopeEh ==
  /\ Running
  /\ Len(m_lhs) <= MaxScopes
  /\ Commit([push_scope_eh(Cur) EXCEPT !.ctx.scopes = Append(@, EmptyScope)], "")
  /\ saved' = Append(saved, Stores(Cur))

PopScopeEh ==
  /\ halted = "no"
  /\ \E num_scopes \in 1..(Len(m_lhs) - 1) :
       /\ Commit([pop_scope_eh(Cur, num_scopes) EXCEPT
                    !.ctx.scopes = SubSeq(@, 1, Len(@) - num_scopes),
                    !.ctx.inconsistent = FALSE], "")
       /\ saved' = SubSeq(saved, 1, Len(saved) - num_scopes)

RestartEh ==
  /\ Running
  /\ Commit(restart_eh(Cur), "")
  /\ UNCHANGED saved

\* the terms the host can find relevant: the internalized terms of the problem
RelevantEh ==
  /\ Running
  /\ \E i \in 1..Len(problem.terms) :
       /\ problem.terms[i] \in Enodes(ctx)
       /\ Len(m_axioms) < MaxAxioms
       /\ Commit(relevant_eh(Cur, problem.terms[i]), "")
  /\ UNCHANGED saved

Propagate ==
  /\ Running
  /\ \E conflictAt \in 0..(Len(m_axioms) - m_axioms_head) :
       Commit(propagate(Cur, conflictAt), "")
  /\ UNCHANGED saved

FinalCheckEh ==
  /\ Running
  /\ \E answer \in BOOLEAN, order \in ArgOrders :
       LET Returned(r) == Commit(r.S, r.status)
       IN Returned(final_check_eh(CurIn(order), answer))
  /\ UNCHANGED saved

\* the host builds a model once the final check has returned FC_DONE
MkValue ==
  /\ Running
  /\ ctx.status \in {"FC_DONE", "model"}
  /\ \E n \in {t \in Enodes(ctx) : is_seq(t)}, order \in ArgOrders :
       Commit(mk_value(CurIn(order), n).S, "model")
  /\ UNCHANGED saved

Next ==
  \/ InternalizeTerm
  \/ AssignEq
  \/ NewEqEh
  \/ NewDiseqEh
  \/ PushScopeEh
  \/ PopScopeEh
  \/ RestartEh
  \/ RelevantEh
  \/ Propagate
  \/ FinalCheckEh
  \/ MkValue

Spec == Init /\ [][Next]_vars

(***************************************************************************)
(* occurs called directly, on every pair of a variable and a bounded term. *)
(***************************************************************************)
\* the terms of nesting depth at most MaxNesting built from x, y and "a"
\* by concatenation and the left and right selectors
RECURSIVE OccursTerms(_)
OccursTerms(depth) ==
  IF depth = 0 THEN {X, Y, StrA}
  ELSE LET sub == OccursTerms(depth - 1)
       IN sub \cup {Concat(s, t) : s \in sub, t \in sub}
              \cup {Skolem1(m_left_sym, s) : s \in sub}
              \cup {Skolem1(m_right_sym, s) : s \in sub}

\* the variables occurs is asked about: plain and under selectors
OccursVars == {X, Y, Skolem1(m_left_sym, X), Skolem1(m_right_sym, Skolem1(m_left_sym, Y))}

InitOccurs ==
  /\ m_rep = [m_map |-> <<>>, m_updates |-> <<>>, m_lhs |-> <<>>, m_rhs |-> <<>>,
              m_deps |-> <<>>, m_limit |-> <<>>]
  /\ m_exclude = [m_table |-> {}, m_lhs |-> <<>>, m_rhs |-> <<>>, m_limit |-> <<>>]
  /\ m_lhs = <<<<>>>>
  /\ m_rhs = <<<<>>>>
  /\ m_deps = <<<<>>>>
  /\ m_ineqs = <<>>
  /\ m_axioms = <<>>
  /\ m_axioms_head = 0
  /\ m_branch_variable_head = 0
  /\ m_incomplete = FALSE
  /\ m_model_completion = FALSE
  /\ m_trail_stack = [m_trail |-> <<>>, m_scopes |-> <<>>]
  /\ ctx = [inconsistent |-> FALSE, fresh |-> 0, out |-> <<>>, status |-> "",
            scopes |-> <<EmptyScope>>]
  /\ halted = "no"
  /\ problem = UnitProblem
  /\ saved = <<>>
  /\ probe \in [a : OccursVars, b : OccursTerms(MaxNesting), ret : {"none"}]

Occurs ==
  /\ probe.ret = "none"
  /\ probe' = [probe EXCEPT !.ret = IF occurs(probe.a, probe.b) THEN "true" ELSE "false"]
  /\ UNCHANGED <<m_rep, m_exclude, m_lhs, m_rhs, m_deps, m_ineqs, m_axioms, m_axioms_head,
                 m_branch_variable_head, m_incomplete, m_model_completion, m_trail_stack,
                 ctx, halted, problem, saved>>

SpecOccurs == InitOccurs /\ [][Occurs]_vars

(***************************************************************************)
(* Properties.                                                             *)
(***************************************************************************)
StoresNow == Stores(Cur)
Depth == Len(m_lhs) - 1
OutCalls(out, kind) == SelectSeq(out, LAMBDA c : c[1] = kind)

\* C1: scope reversibility.  Whatever callbacks ran inside a scope, the pop
\* that closes it (and any scopes nested in it) leaves the solution map, the
\* exclusion table, the top pending-equation frame, the inequation list, the
\* incompleteness flag, the axiom queue and the axiom cursor exactly as the
\* matching push_scope_eh found them.
C1_ScopeReversibility ==
  [][Len(m_lhs') < Len(m_lhs) => StoresNow' = saved[Len(m_lhs')]]_vars

\* a pop has undone a model-completion binding: the factory has handed out a
\* value, no scope is open, and the solution map no longer holds any binding
C1_Witness ==
  /\ Depth = 0
  /\ ctx.fresh > 0
  /\ m_rep.m_map = <<>>
  /\ m_rep.m_updates = <<>>

\* the dependencies of the solution-map entries followed from t to the term
\* it stands for, and from there down through the arguments expand descends into
RECURSIVE ChainDeps(_, _)
ChainDeps(map, t) ==
  IF t \in DOMAIN map THEN map[t][2] \cup ChainDeps(map, map[t][1])
  ELSE IF Tag(t) \in {"concat", "eq", "prefix", "suffix", "contains"}
  THEN ChainDeps(map, t[2]) \cup ChainDeps(map, t[3])
  ELSE {}

\* the term t stands for under the map
RECURSIVE Subst(_, _)
Subst(map, t) ==
  IF t \in DOMAIN map THEN Subst(map, map[t][1])
  ELSE IF Tag(t) \in {"concat", "eq", "prefix", "suffix", "contains"}
  THEN <<Tag(t), Subst(map, t[2]), Subst(map, t[3])>>
  ELSE t

\* the recorded inequation at i canonizes to true
Refuted(map, ineqs, i) == Rewrite(Subst(map, ineqs[i])) = True
AnyRefuted(map, ineqs) == \E i \in 1..Len(ineqs) : Refuted(map, ineqs, i)

\* C2: final_check_eh returns FC_DONE only if at return the top pending-
\* equation frame is empty, the incompleteness flag is false and no recorded
\* inequation canonizes to true; it returns FC_GIVEUP exactly when no earlier
\* step returned continue (no inequation refuted, simplify_and_solve_eqs
\* changed nothing, the host consistent, no branch proposed) and a pending
\* equation remains or the incompleteness flag is set.
C2_FinalCheckStatus ==
  /\ ctx.status = "FC_DONE" =>
       /\ Back(m_lhs) = <<>>
       /\ ~m_incomplete
       /\ ~AnyRefuted(m_rep.m_map, m_ineqs)
  /\ Running =>
       \A answer \in BOOLEAN, order \in ArgOrders :
         LET r == final_check_eh(CurIn(order), answer)
         IN r.status = "FC_GIVEUP" <=>
              /\ ~AnyRefuted(m_rep.m_map, m_ineqs)
              /\ Back(r.S.m_lhs) = Back(m_lhs)
              /\ Back(r.S.m_rhs) = Back(m_rhs)
              /\ DOMAIN r.S.m_rep.m_map = DOMAIN m_rep.m_map
              /\ ~r.S.ctx.inconsistent
              /\ OutCalls(r.S.out, "assume_eq") = <<>>
              /\ (Back(r.S.m_lhs) # <<>> \/ r.S.m_incomplete)

\* a final check has just given up on an incomplete problem with inequations
\* on record, none of them refuted
C2_Witness == ctx.status = "FC_GIVEUP" /\ m_incomplete /\ m_ineqs # <<>>

\* C3: if at entry to final_check_eh a recorded inequation canonizes to true,
\* the call assigns the literal of the first such inequation, justified by
\* exactly the enode pairs of the solution-map entries its canonization
\* followed, returns FC_CONTINUE, leaves the pending equations alone and
\* proposes no branch.
C3_IneqRefutation ==
  (Running /\ AnyRefuted(m_rep.m_map, m_ineqs)) =>
    \A answer \in BOOLEAN, order \in ArgOrders :
      LET r == final_check_eh(CurIn(order), answer)
          i == CHOOSE i \in 1..Len(m_ineqs) :
                 /\ Refuted(m_rep.m_map, m_ineqs, i)
                 /\ \A j \in 1..(i - 1) : ~Refuted(m_rep.m_map, m_ineqs, j)
      IN /\ r.status = "FC_CONTINUE"
         /\ OutCalls(r.S.out, "assign")
              = <<<<"assign", m_ineqs[i], ChainDeps(m_rep.m_map, m_ineqs[i])>>>>
         /\ OutCalls(r.S.out, "assume_eq") = <<>>
         /\ OutCalls(r.S.out, "assign_eq") = <<>>
         /\ OutCalls(r.S.out, "set_conflict") = <<>>
         /\ <<r.S.m_lhs, r.S.m_rhs, r.S.m_deps>> = <<m_lhs, m_rhs, m_deps>>
         /\ DOMAIN r.S.m_rep.m_map = DOMAIN m_rep.m_map

\* a final check has just refuted an inequation on the strength of a
\* solution-map entry
C3_Witness ==
  /\ ctx.status = "FC_CONTINUE"
  /\ \E i \in 1..Len(ctx.out) : ctx.out[i][1] = "assign" /\ ctx.out[i][3] # {}
  /\ Back(m_lhs) # <<>>

\* C4 (as claimed): a final check that returns FC_CONTINUE because
\* branch_variable proposed an equality has had ctx.assume_eq report a new
\* split for it.
C4_BranchOnlyOnNewSplit ==
  \A i \in 1..Len(ctx.out) : ctx.out[i][1] = "assume_eq" => ctx.out[i][4] = TRUE

\* C5: assign_eq on a prefix, suffix or contains atom.  True: exactly one
\* equality goes to the host, b = a.sk_prefix(a,b), b = sk_suffix(a,b).a or
\* b = sk_contains_left(a,b).a.sk_contains_right(a,b), justified by the
\* literal alone, and the inequation list is unchanged.  False: the atom is
\* appended to the inequation list with one trail record and nothing goes to
\* the host.
C5_AssignEq ==
  Running =>
    \A e \in {a \in problem.atoms : a \in Enodes(ctx) /\ ~is_in_re(a)} :
      LET a == e[2]
          b == e[3]
          f == IF is_prefix(e) THEN Concat(a, Skolem2("prefix", a, b))
               ELSE IF is_suffix(e) THEN Concat(Skolem2("suffix", a, b), a)
               ELSE Concat(Concat(Skolem2("contains_left", a, b), a),
                           Skolem2("contains_right", a, b))
          T == assign_eq(Cur, e, TRUE)
          F == assign_eq(Cur, e, FALSE)
      IN /\ T.out = <<<<"assign_eq", f, b, {e}, {}>>>>
         /\ T.m_ineqs = m_ineqs
         /\ T.m_trail_stack = m_trail_stack
         /\ T.halted = "no"
         /\ F.m_ineqs = Append(m_ineqs, e)
         /\ F.m_trail_stack.m_trail = Append(m_trail_stack.m_trail, <<"pop_ineqs">>)
         /\ F.out = <<>>
         /\ F.halted = "no"

\* the host has just been handed the decomposition of a contains atom it
\* assigned true
C5_Witness ==
  /\ \E i \in 1..Len(ctx.out) :
       /\ ctx.out[i][1] = "assign_eq"
       /\ ctx.out[i][4] = {Contains(StrB, X)}
  /\ <<"lit", Contains(StrB, X), TRUE>> \in Facts(ctx)

\* C6 (as claimed): once new_eq_eh has been told of an equality between a
\* term whose length application the host holds and a concatenation a.b, the
\* axiom |a| + |b| = |a.b| is in the axiom queue.
C6_LenConcatAxiomQueued ==
  \A f \in Facts(ctx) :
    f[1] = "eq" =>
      \A n1 \in {f[2], f[3]}, n2 \in {f[2], f[3]} :
        (n1 # n2 /\ Length(n1) \in Enodes(ctx) /\ is_concat(n2)) =>
          \E i \in 1..Len(m_axioms) :
            m_axioms[i] = Eq(Add(Length(n2[2]), Length(n2[3])), Length(n2))

\* C7 (as claimed): relevant_eh for an internalized length, replace, indexof
\* or extract term appends the axioms of that term's schema to the axiom queue.
C7_LazyAxiomsPerKind ==
  Running =>
    \A t \in {u \in Enodes(ctx) : Tag(u) \in {"length", "replace", "index", "extract"}} :
      LET S == relevant_eh(Cur, t)
      IN /\ S.halted = "no"
         /\ Len(S.m_axioms) > Len(m_axioms)
         /\ Tag(t) = "index" => S.m_axioms = m_axioms \o IndexofAxioms(t)
         /\ Tag(t) = "replace" => S.m_axioms = m_axioms \o ReplaceAxioms(t)

\* C8: relevant_eh(t) for a length application t = |x| appends to the axiom
\* queue 0 <= |x|, (0 = |x|) -> x = empty, x = empty -> (0 = |x|), and then
\* |x| = nf if the rewriter's normal form nf of |x| is not |x| itself, with
\* one trail record each and nothing else changed; for any other term it
\* changes nothing at all.
C8_RelevantLength ==
  Running =>
    \A t \in Enodes(ctx) :
      LET S == relevant_eh(Cur, t)
          x == t[2]
          zero == Eq(mk_int(0), t)
          nil == Eq(x, Empty)
          new == <<Le(mk_int(0), t), Or(Not(zero), nil), Or(Not(nil), zero)>>
                 \o (IF Rewrite(t) # t THEN <<Eq(t, Rewrite(t))>> ELSE <<>>)
      IN IF is_length(t)
         THEN /\ S.m_axioms = m_axioms \o new
              /\ S.m_trail_stack.m_trail
                   = m_trail_stack.m_trail \o [k \in 1..Len(new) |-> <<"pop_axioms">>]
              /\ [S EXCEPT !.m_axioms = m_axioms, !.m_trail_stack = m_trail_stack] = Cur
         ELSE S = Cur

\* the queue holds the four axioms of |"ab"|, the last one |"ab"| = 2
C8_Witness ==
  /\ Len(m_axioms) >= 4
  /\ m_axioms[Len(m_axioms)] = Eq(Length(StrAB), mk_int(2))
  /\ m_axioms[Len(m_axioms) - 3] = Le(mk_int(0), Length(StrAB))

\* C9: the axiom cursor never exceeds the queue length; every queue entry
\* before the cursor is held by the host in a scope that is still open, so
\* what was asserted only in popped scopes lies at or after the cursor; and
\* propagate hands the entries from the cursor on to the host in queue order,
\* one cursor step each, stopping early only on an inconsistent host, so that
\* with the host consistent it ends with the cursor at the queue length and
\* can_propagate false.
C9_AxiomCursor ==
  /\ m_axioms_head <= Len(m_axioms)
  /\ \A i \in 1..m_axioms_head : is_true(m_axioms[i]) \/ m_axioms[i] \in Clauses(ctx)
  /\ Running =>
       \A conflictAt \in 0..(Len(m_axioms) - m_axioms_head) :
         LET S == propagate(Cur, conflictAt)
             n == S.m_axioms_head - m_axioms_head
         IN /\ n >= 0
            /\ OutCalls(S.out, "mk_th_axiom")
                 = [j \in 1..n |-> <<"mk_th_axiom", m_axioms[m_axioms_head + j]>>]
            /\ S.m_axioms = m_axioms
            /\ S.m_axioms_head < Len(m_axioms) => S.ctx.inconsistent
            /\ ~S.ctx.inconsistent =>
                 (S.m_axioms_head = Len(m_axioms) /\ ~can_propagate(S))

\* propagate has just handed the whole queue to a host that stayed
\* consistent, inside a scope opened after the axioms were queued
C9_Witness ==
  /\ Depth > 0
  /\ ~ctx.inconsistent
  /\ m_axioms_head = Len(m_axioms)
  /\ Len(OutCalls(ctx.out, "mk_th_axiom")) = Len(m_axioms)
  /\ Len(m_axioms) > 0
  /\ \A i \in 1..Len(saved) : saved[i].axioms = m_axioms /\ saved[i].head = 0

\* C10 (as claimed): once the host has assigned an in_re atom, true or false,
\* the theory has not aborted, the incompleteness flag is set, and no final
\* check returns done.
C10_InReIncomplete ==
  (\E f \in Facts(ctx) : f[1] = "lit" /\ is_in_re(f[2])) =>
    /\ halted = "no"
    /\ m_incomplete
    /\ ctx.status # "FC_DONE"

\* scenario 1 as the host sets it up: x."a" = "ba" is the only pending
\* equation, nothing has been solved, recorded or flagged yet
Scenario1Start ==
  /\ Running
  /\ Back(m_lhs) = <<Concat(X, StrA)>>
  /\ Back(m_rhs) = <<StrBA>>
  /\ m_rep.m_map = <<>>
  /\ m_ineqs = <<>>
  /\ ~m_incomplete

\* C11: end-to-end scenario 1.  Once the host has internalized x."a" and "ba"
\* and reported their equality, two successive calls of final_check_eh suffice:
\* the first returns continue with the host consistent, the second returns
\* done with x -> "b" in the solution map and an empty top pending frame.
C11_Scenario1 ==
  Scenario1Start =>
    \A a1 \in BOOLEAN, a2 \in BOOLEAN, o1 \in ArgOrders, o2 \in ArgOrders :
      LET Second(r2) ==
            /\ r2.status = "FC_DONE"
            /\ X \in DOMAIN r2.S.m_rep.m_map
            /\ r2.S.m_rep.m_map[X][1] = StrB
            /\ Back(r2.S.m_lhs) = <<>>
          First(r1) ==
            /\ r1.status = "FC_CONTINUE"
            /\ ~r1.S.ctx.inconsistent
            /\ Second(final_check_eh([r1.S EXCEPT !.arg_order = o2, !.out = <<>>], a2))
      IN First(final_check_eh(CurIn(o1), a1))

\* the host has reported x."a" = "ba" and a final check has returned done
\* with x -> "b" in the solution map and nothing pending
C11_Witness ==
  /\ ctx.status = "FC_DONE"
  /\ <<"eq", Concat(X, StrA), StrBA>> \in Facts(ctx)
  /\ X \in DOMAIN m_rep.m_map
  /\ m_rep.m_map[X][1] = StrB
  /\ Back(m_lhs) = <<>>

\* scenario 2 as the host sets it up: x.y = "ab" is the only pending
\* equation; nothing has been solved, recorded, excluded or flagged yet
Scenario2Start ==
  /\ Running
  /\ Back(m_lhs) = <<Concat(X, Y)>>
  /\ Back(m_rhs) = <<StrAB>>
  /\ m_rep.m_map = <<>>
  /\ m_ineqs = <<>>
  /\ m_exclude.m_table = {}
  /\ ~m_incomplete

\* the equalities a returned final check handed to the host's assume_eq
Proposed(r) == OutCalls(r.S.out, "assume_eq")
\* the host calls again after a callback returned S
Resume(S, order) == [S EXCEPT !.arg_order = order, !.out = <<>>]

\* C12 (as claimed): end-to-end scenario 2.  With x.y = "ab" pending the host
\* internalizes |x|; the first final check proposes x = empty, which the host
\* answers with the disequality x != empty; the second proposes a term that
\* rewrites to "a" for x, which the host accepts by reporting the equality;
\* the third derives y = "b"; and the final check after that returns done.
C12_Scenario2 ==
  Scenario2Start =>
    \A o \in ArgOrders, a \in BOOLEAN :
      LET Fourth(r3, r4) ==
            /\ r3.status = "FC_CONTINUE"
            /\ Subst(r3.S.m_rep.m_map, Y) = StrB
            /\ r4.status = "FC_DONE"
          Third(r2, r3) == Fourth(r3, final_check_eh(Resume(r3.S, o), a))
          Accepted(r2, c) ==
            Third(r2, final_check_eh(
                        new_eq_eh(AddFact(Resume(r2.S, o), <<"eq", X, c>>), X, c), a))
          Second(r1, r2) ==
            /\ Len(Proposed(r2)) = 1
            /\ Proposed(r2)[1][2] = X
            /\ Rewrite(Proposed(r2)[1][3]) = StrA
            /\ Accepted(r2, Proposed(r2)[1][3])
          First(r1) ==
            /\ Len(Proposed(r1)) = 1
            /\ Proposed(r1)[1][2] = X
            /\ Proposed(r1)[1][3] = Empty
            /\ Second(r1, final_check_eh(
                            new_diseq_eh(AddFact(Resume(r1.S, o), <<"diseq", X, Empty>>),
                                         X, Empty), a))
      IN First(final_check_eh(ctx_internalize(CurIn(o), Length(X)), a))

\* the key-to-value edges solution_map::find follows from t: the term at their
\* end and the join of their witnesses
RECURSIVE Terminal(_, _)
Terminal(map, t) == IF t \in DOMAIN map THEN Terminal(map, map[t][1]) ELSE t
RECURSIVE EdgeDeps(_, _)
EdgeDeps(map, t) ==
  IF t \in DOMAIN map THEN map[t][2] \cup EdgeDeps(map, map[t][1]) ELSE {}
RECURSIVE EdgeCount(_, _)
EdgeCount(map, t) == IF t \in DOMAIN map THEN 1 + EdgeCount(map, map[t][1]) ELSE 0

\* every entry of post that differs from the entry before under the same key
\* is a path compression: it maps the key to the end of its chain under the
\* join of the witnesses of the edges skipped
OnlyCompressed(before, post) ==
  \A k \in DOMAIN before :
    /\ k \in DOMAIN post
    /\ post[k] # before[k] =>
         /\ EdgeCount(before, k) > 1
         /\ post[k] = <<Terminal(before, k), EdgeDeps(before, k)>>

\* C13: dependency soundness as witness completeness.  For every pending
\* equation (L, R, D) of the top frame, the witness of every solution-map
\* entry solve_unit_eq records, of every subproblem simplify_eq pushes and of
\* every conflict simplify_eq raises contains the enode pairs of D and of all
\* solution-map entries followed while canonizing L and R; and every entry
\* either call, or find on any key, overwrites is a path compression carrying
\* the join of the witnesses of the skipped edges.
C13_DependencySoundness ==
  /\ Running =>
    \A o \in ArgOrders, i \in 1..Len(Back(m_lhs)) :
      LET L == Back(m_lhs)[i]
          R == Back(m_rhs)[i]
          D == Back(m_deps)[i]
          map == m_rep.m_map
          need == linearize(D) \cup ChainDeps(map, L) \cup ChainDeps(map, R)
          Solved(r) ==
            /\ \A k \in DOMAIN r.S.m_rep.m_map \ DOMAIN map :
                 need \subseteq linearize(r.S.m_rep.m_map[k][2])
            /\ \A j \in 1..Len(OutCalls(r.S.out, "assign_eq")) :
                 need \subseteq OutCalls(r.S.out, "assign_eq")[j][5]
            /\ OnlyCompressed(map, r.S.m_rep.m_map)
          Simplified(r) ==
            /\ \A j \in (Len(Back(m_lhs)) + 1)..Len(Back(r.S.m_lhs)) :
                 need \subseteq linearize(Back(r.S.m_deps)[j])
            /\ \A j \in 1..Len(OutCalls(r.S.out, "set_conflict")) :
                 need \subseteq OutCalls(r.S.out, "set_conflict")[j][2]
            /\ OnlyCompressed(map, r.S.m_rep.m_map)
      IN /\ Solved(solve_unit_eq(CurIn(o), L, R, D))
         /\ Simplified(simplify_eq(CurIn(o), L, R, D))
  /\ \A k \in DOMAIN m_rep.m_map :
       LET Found(f) ==
             /\ OnlyCompressed(m_rep.m_map, f.rep.m_map)
             /\ EdgeCount(m_rep.m_map, k) > 1 =>
                  linearize(f.rep.m_map[k][2]) = EdgeDeps(m_rep.m_map, k)
       IN Found(solution_map_find(m_rep, k))

\* solve_unit_eq has bound x to "a" from the pending equation x = y after
\* following the entry y -> "a": the witness holds the enode pair of the
\* equation and that of the entry, and no entry has been overwritten
C13_Witness ==
  /\ X \in DOMAIN m_rep.m_map
  /\ Y \in DOMAIN m_rep.m_map
  /\ m_rep.m_map[Y] = <<StrA, {<<Y, StrA>>}>>
  /\ m_rep.m_map[X] = <<StrA, {<<X, Y>>, <<Y, StrA>>}>>
  /\ \A j \in 1..Len(m_rep.m_updates) : m_rep.m_updates[j] = "INS"

\* v appears in t along a path through concatenation arguments and left/right
\* selector arguments, in any nesting order
RECURSIVE Appears(_, _)
Appears(v, t) ==
  \/ t = v
  \/ is_concat(t) /\ (Appears(v, t[2]) \/ Appears(v, t[3]))
  \/ (is_left_select(t) \/ is_right_select(t)) /\ Appears(v, t[3][1])

\* C14 (as claimed): occurs-check soundness.  Whenever occurs(v, t) has
\* returned false, v with its own selector layers stripped does not appear in
\* t along any path through concatenation arguments and left/right selector
\* arguments, a concatenation underneath a selector included.
C14_OccursSound ==
  probe.ret = "false" => ~Appears(StripSelect(probe.a), probe.b)

\* the keys met from t by following entries and descending into the
\* arguments expand descends into, following at most fuel entries on a path
RECURSIVE KeysBelow(_, _, _)
KeysBelow(map, t, fuel) ==
  IF fuel = 0 THEN {}
  ELSE IF t \in DOMAIN map THEN {t} \cup KeysBelow(map, map[t][1], fuel - 1)
  ELSE IF Tag(t) \in {"concat", "eq", "prefix", "suffix", "contains"}
  THEN KeysBelow(map, t[2], fuel) \cup KeysBelow(map, t[3], fuel)
  ELSE {}

Acyclic(map) ==
  \A k \in DOMAIN map : k \notin KeysBelow(map, map[k][1], Cardinality(DOMAIN map))

CanonTerms ==
  Enodes(ctx) \cup {m_ineqs[i] : i \in 1..Len(m_ineqs)}
    \cup {Back(m_lhs)[i] : i \in 1..Len(Back(m_lhs))}
    \cup {Back(m_rhs)[i] : i \in 1..Len(Back(m_rhs))}
    \cup DOMAIN m_rep.m_map
    \cup {Concat(s, t) : s \in DOMAIN m_rep.m_map, t \in DOMAIN m_rep.m_map}

\* C16: canonicalize idempotence.  In every reachable state (model-completion
\* mode is off between callbacks) and for every term e, canonize applied to
\* the term canonize(e) returned gives that same term again and adds no enode
\* pair to the witness canonize(e) built.
C16_CanonizeIdempotent ==
  \A o \in ArgOrders, e \in CanonTerms :
    LET Again(r1, r2) == r2.e = r1.e /\ r2.eqs = r1.eqs
        Once(r1) == Again(r1, canonize(r1.S, r1.e, r1.eqs))
    IN Once(canonize(CurIn(o), e, NoDep))

\* a final check has returned, and some term the theory holds canonizes to a
\* different term under a non-empty witness through a chain of two entries
C16_Witness ==
  /\ ctx.status = "FC_CONTINUE"
  /\ \E e \in CanonTerms :
       /\ canonize(Cur, e, NoDep).e # e
       /\ canonize(Cur, e, NoDep).eqs # {}
       /\ \E k \in DOMAIN m_rep.m_map : EdgeCount(m_rep.m_map, k) > 1

\* the undo records of the incompleteness flag on the trail
IncompleteTrail == OutCalls(m_trail_stack.m_trail, "value_incomplete")

\* C17: the incompleteness flag is monotonic within a scope.  Only a step
\* that pops scopes takes the flag from true to false; a pop leaves the flag
\* as the matching push_scope_eh found it; and set_incomplete on a flag that
\* is already set records no trail entry and changes nothing.
C17_IncompleteMonotonic ==
  /\ [][/\ (m_incomplete /\ ~m_incomplete') => Len(m_lhs') < Len(m_lhs)
        /\ Len(m_lhs') < Len(m_lhs) => m_incomplete' = saved[Len(m_lhs')].incomplete
        /\ (m_incomplete /\ Len(m_lhs') >= Len(m_lhs)) =>
             Len(IncompleteTrail') = Len(IncompleteTrail)
       ]_vars
  /\ [](m_incomplete =>
          \A i \in 1..Len(problem.terms) :
            set_incomplete(Cur, problem.terms[i]) = Cur)

\* inside a scope that was opened with the flag clear, two unsupported terms
\* have been internalized: the flag is set and the trail holds one undo
\* record for it
C17_Witness ==
  /\ Depth > 0
  /\ ~saved[Len(saved)].incomplete
  /\ m_incomplete
  /\ Cardinality({t \in Enodes(ctx) : Tag(t) \in {"length", "index", "in_re"}}) >= 2
  /\ Len(IncompleteTrail) = 1

\* the entries of the map after that bind a key absent from the map before
NewKeys(before, after) == DOMAIN after \ DOMAIN before

\* C18: model-completion mode is on only during model construction.  The
\* flag is false between callbacks; only a step of mk_value takes a value from
\* the factory; mk_value returns with the flag false, and every key it adds
\* is a variable bound to a fresh value under the empty witness; final_check_eh
\* returns with the flag false, takes no fresh value and adds no entry under
\* the empty witness.
C18_ModelCompletion ==
  /\ [][ctx.fresh' # ctx.fresh => (ctx.fresh' > ctx.fresh /\ ctx'.status = "model")]_vars
  /\ [](/\ ~m_model_completion
        /\ Running =>
             \A o \in ArgOrders :
               /\ \A n \in {t \in Enodes(ctx) : is_seq(t)} :
                    LET Built(r) ==
                          /\ ~r.S.m_model_completion
                          /\ \A k \in NewKeys(m_rep.m_map, r.S.m_rep.m_map) :
                               /\ is_var(k)
                               /\ \E j \in (ctx.fresh + 1)..r.S.ctx.fresh :
                                    r.S.m_rep.m_map[k] = <<FreshValue(j), NoDep>>
                    IN Built(mk_value(CurIn(o), n))
               /\ \A answer \in BOOLEAN :
                    LET Checked(r) ==
                          /\ ~r.S.m_model_completion
                          /\ r.S.ctx.fresh = ctx.fresh
                          /\ \A k \in NewKeys(m_rep.m_map, r.S.m_rep.m_map) :
                               r.S.m_rep.m_map[k][2] # NoDep
                    IN Checked(final_check_eh(CurIn(o), answer)))

\* mk_value has bound a free variable to a fresh value under the empty
\* witness and has switched the mode off again
C18_Witness ==
  /\ ctx.status = "model"
  /\ ~m_model_completion
  /\ \E k \in DOMAIN m_rep.m_map, j \in 1..ctx.fresh :
       m_rep.m_map[k] = <<FreshValue(j), NoDep>>

\* C19: solution_map::find.  For every key or internalized term e, find(e)
\* returns the term at the end of e's chain with the join of the witnesses of
\* the edges followed.  After a chain of two or more edges e maps directly to
\* that term under the joined witness, the trail has grown by a DEL record of
\* the old entry and an INS record of the new one, and no other key's entry
\* has changed; after a chain of no or one edge the map and the trail are as
\* they were.  A second find(e) returns the same term.
C19_Find ==
  \A e \in DOMAIN m_rep.m_map \cup Enodes(ctx) :
    LET map == m_rep.m_map
        Found(f) ==
          /\ f.result = Terminal(map, e)
          /\ linearize(f.d) = EdgeDeps(map, e)
          /\ EdgeCount(map, e) >= 2 =>
               /\ DOMAIN f.rep.m_map = DOMAIN map
               /\ f.rep.m_map[e] = <<f.result, f.d>>
               /\ \A k \in DOMAIN map \ {e} : f.rep.m_map[k] = map[k]
               /\ f.rep.m_updates = m_rep.m_updates \o <<"DEL", "INS">>
               /\ f.rep.m_lhs = m_rep.m_lhs \o <<e, e>>
               /\ f.rep.m_rhs = m_rep.m_rhs \o <<map[e][1], f.result>>
               /\ f.rep.m_deps = m_rep.m_deps \o <<map[e][2], f.d>>
               /\ f.rep.m_limit = m_rep.m_limit
          /\ EdgeCount(map, e) <= 1 => f.rep = m_rep
          /\ solution_map_find(f.rep, e).result = f.result
    IN Found(solution_map_find(m_rep, e))

\* a find has compressed the path of x: x maps to "a" under the witnesses of
\* both edges of its old chain x -> y -> "a", and the overwrite is the last
\* thing on the map's trail
C19_Witness ==
  /\ X \in DOMAIN m_rep.m_map
  /\ Y \in DOMAIN m_rep.m_map
  /\ m_rep.m_map[Y] = <<StrA, {<<Y, StrA>>}>>
  /\ m_rep.m_map[X] = <<StrA, {<<X, Y>>, <<Y, StrA>>}>>
  /\ Len(m_rep.m_updates) >= 2
  /\ SubSeq(m_rep.m_updates, Len(m_rep.m_updates) - 1, Len(m_rep.m_updates)) = <<"DEL", "INS">>
  /\ Back(m_rep.m_rhs) = StrA
  /\ m_rep.m_rhs[Len(m_rep.m_rhs) - 1] = Y

\* the unordered pair {v, c} is in the exclusion table
Excluded(table, v, c) == <<v, c>> \in table \/ <<c, v>> \in table

\* the concatenation of the atoms rs[1..j] as branching accumulates it
RECURSIVE Accumulated(_, _)
Accumulated(rs, j) == IF j = 1 THEN rs[1] ELSE Concat(Accumulated(rs, j - 1), rs[j])

\* the candidates atom j contributes: the proper prefixes of a literal atom
\* appended to what was accumulated (to empty at first), then the accumulation
\* extended by the atom
CandidateGroup(rs, j) ==
  LET s == IF is_string(rs[j]) THEN rs[j][2] ELSE <<>>
      acc == IF j = 1 THEN Empty ELSE Accumulated(rs, j - 1)
  IN [k \in 1..(IF Len(s) > 0 THEN Len(s) - 1 ELSE 0) |-> Concat(acc, Str(SubStr(s, 1, k)))]
       \o <<Accumulated(rs, j)>>

\* empty, then the groups of the atoms rs[1..n]
RECURSIVE CandidateOrder(_, _)
CandidateOrder(rs, n) ==
  IF n = 0 THEN <<Empty>> ELSE CandidateOrder(rs, n - 1) \o CandidateGroup(rs, n)

\* how many leading atoms of rs the occurs-check lets v be compared with
Usable(v, rs) ==
  CHOOSE n \in 0..Len(rs) :
    /\ \A j \in 1..n : ~occurs(v, rs[j])
    /\ n = Len(rs) \/ occurs(v, rs[n + 1])

\* c is the first candidate for v against the atoms rs that is not excluded
FirstFree(table, v, rs, c) ==
  /\ is_var(v)
  /\ LET cands == CandidateOrder(rs, Usable(v, rs))
     IN \E i \in 1..Len(cands) :
          /\ cands[i] = c
          /\ \A h \in 1..(i - 1) : Excluded(table, v, cands[h])

\* v has no candidate against the atoms rs that is not excluded
NoneFree(table, v, rs) ==
  is_var(v) =>
    LET cands == CandidateOrder(rs, Usable(v, rs))
    IN \A i \in 1..Len(cands) : Excluded(table, v, cands[i])

\* C20: branching never proposes a blocked candidate.  A call of
\* branch_variable hands at most one pair to the host's assume_eq, and it
\* returns true exactly when it hands one; the pair (v, c) is not in the
\* exclusion table, v heads one side of a pending equation, and c is the first
\* candidate not excluded in the order: empty, then per atom of the opposite
\* side, up to the first atom v occurs in, the proper prefixes of a literal
\* atom appended to the atoms accumulated, then the accumulation extended by
\* the atom.  When it hands none, every candidate of every head variable is
\* excluded.
C20_BranchCandidates ==
  Running =>
    \A o \in ArgOrders, answer \in BOOLEAN :
      LET table == m_exclude.m_table
          lhs == Back(m_lhs)
          rhs == Back(m_rhs)
          Branched(r, calls) ==
            /\ Len(calls) <= 1
            /\ r.ret <=> Len(calls) = 1
            /\ Len(calls) = 1 =>
                 /\ ~Excluded(table, calls[1][2], calls[1][3])
                 /\ \E k \in 1..Len(lhs) :
                      \/ FirstFree(table, calls[1][2], get_concat(rhs[k]), calls[1][3])
                           /\ calls[1][2] = get_concat(lhs[k])[1]
                      \/ FirstFree(table, calls[1][2], get_concat(lhs[k]), calls[1][3])
                           /\ calls[1][2] = get_concat(rhs[k])[1]
            /\ Len(calls) = 0 =>
                 \A k \in 1..Len(lhs) :
                   /\ NoneFree(table, get_concat(lhs[k])[1], get_concat(rhs[k]))
                   /\ NoneFree(table, get_concat(rhs[k])[1], get_concat(lhs[k]))
          Called(r) == Branched(r, OutCalls(r.S.out, "assume_eq"))
      IN Called(branch_variable(CurIn(o), answer))

\* a final check has proposed a candidate other than empty for x while
\* {x, empty} is in the exclusion table: the excluded candidate was skipped
C20_Witness ==
  /\ ctx.status = "FC_CONTINUE"
  /\ Excluded(m_exclude.m_table, X, Empty)
  /\ Len(OutCalls(ctx.out, "assume_eq")) = 1
  /\ OutCalls(ctx.out, "assume_eq")[1][2] = X
  /\ OutCalls(ctx.out, "assume_eq")[1][3] # Empty

\* the top pending-equation frame of S as a sequence of triples
Frame(S) ==
  [i \in 1..Len(Back(S.m_lhs)) |-> <<Back(S.m_lhs)[i], Back(S.m_rhs)[i], Back(S.m_deps)[i]>>]

IsPrefix(s, t) == Len(s) <= Len(t) /\ SubSeq(t, 1, Len(s)) = s
Entries(f) == {f[i] : i \in 1..Len(f)}

\* no callback or step other than new_eq_eh, the two passes over the frame
\* and the scope handlers adds, removes or reorders pending equations
FrameLeftAlone ==
  /\ \A p \in problem.diseqs : Frame(new_diseq_eh(Cur, p[1], p[2])) = Frame(Cur)
  /\ \A e \in problem.atoms \cap Enodes(ctx), isTrue \in BOOLEAN :
       Frame(assign_eq(Cur, e, isTrue)) = Frame(Cur)
  /\ \A conflictAt \in 0..(Len(m_axioms) - m_axioms_head) :
       Frame(propagate(Cur, conflictAt)) = Frame(Cur)
  /\ \A t \in Enodes(ctx) : Frame(relevant_eh(Cur, t)) = Frame(Cur)
  /\ Frame(restart_eh(Cur)) = Frame(Cur)
  /\ \A answer \in BOOLEAN :
       /\ Frame(check_ineqs(Cur, answer).S) = Frame(Cur)
       /\ Frame(branch_variable(Cur, answer).S) = Frame(Cur)

\* new_eq_eh appends the one equation between distinct enodes, and
\* simplify_eq only appends
FrameGrowth ==
  /\ \A p \in problem.eqs \cup {<<t, t>> : t \in Enodes(ctx)} :
       Frame(new_eq_eh(Cur, p[1], p[2]))
         = Frame(Cur) \o (IF p[1] # p[2] THEN <<<<p[1], p[2], mk_leaf(p[1], p[2])>>>> ELSE <<>>)
  /\ \A o \in ArgOrders, i \in 1..Len(Frame(Cur)) :
       IsPrefix(Frame(Cur),
                Frame(simplify_eq(CurIn(o), Frame(Cur)[i][1], Frame(Cur)[i][2],
                                  Frame(Cur)[i][3]).S))

\* C21 (as claimed): pending-equation lifecycle.  Entries enter the top frame
\* only through new_eq_eh for distinct enodes and as subproblems appended by
\* simplify_eq; the pass of solve_unit_eq that follows a pass of simplify_eq
\* adds no entry and removes exactly as many entries as it records
\* solution-map entries; and new_diseq_eh, assign_eq, propagate, relevant_eh,
\* restart_eh, check_ineqs and branch_variable leave the frame as it is.
C21_Lifecycle ==
  Running =>
    /\ FrameLeftAlone
    /\ FrameGrowth
    /\ \A o \in ArgOrders :
         LET Solved(s1, s2) ==
               /\ Entries(Frame(s2.S)) \subseteq Entries(Frame(s1.S))
               /\ Len(Frame(s1.S)) - Len(Frame(s2.S))
                    = Cardinality(NewKeys(s1.S.m_rep.m_map, s2.S.m_rep.m_map))
             Simplified(s1) == Solved(s1, solve_basic_eqs(s1.S))
         IN Simplified(simplify_eqs(CurIn(o)))

\* C21 (amended): as above, but the pass of solve_unit_eq removes an entry
\* either on recording a solution-map entry for it or on finding its
\* canonized sides identical: it removes at least as many entries as it
\* records solution-map entries, and the sides of every entry it removes
\* canonize to the same term afterwards.
C21_LifecycleAmended ==
  Running =>
    /\ FrameLeftAlone
    /\ FrameGrowth
    /\ \A o \in ArgOrders :
         LET Same(S, eq) == canonize(S, eq[1], NoDep).e = canonize(S, eq[2], NoDep).e
             Solved(s1, s2) ==
               /\ Entries(Frame(s2.S)) \subseteq Entries(Frame(s1.S))
               /\ Len(Frame(s1.S)) - Len(Frame(s2.S))
                    >= Cardinality(NewKeys(s1.S.m_rep.m_map, s2.S.m_rep.m_map))
               /\ \A eq \in Entries(Frame(s1.S)) \ Entries(Frame(s2.S)) : Same(s2.S, eq)
               /\ s2.change <=> Len(Frame(s2.S)) < Len(Frame(s1.S))
             Simplified(s1) == Solved(s1, solve_basic_eqs(s1.S))
         IN Simplified(simplify_eqs(CurIn(o)))

\* a final check has emptied the frame of x."a" = y."a" and x = y by binding
\* x once: the second copy of x = y went for having identical canonized sides
C21_Witness ==
  /\ ctx.status = "FC_CONTINUE"
  /\ <<"eq", Concat(X, StrA), Concat(Y, StrA)>> \in Facts(ctx)
  /\ <<"eq", X, Y>> \in Facts(ctx)
  /\ Back(m_lhs) = <<>>
  /\ Cardinality(DOMAIN m_rep.m_map) = 1
  /\ m_rep.m_updates = <<"INS">>

\* C22 (as claimed): whenever the reducer, applied to the canonized sides of
\* a pending equation, returns exactly that one pair unchanged, simplify_eq
\* returns false and leaves the top pending-equation frame as it is, also
\* when canonization changed a side.
C22_NoProgress ==
  Running =>
    \A o \in ArgOrders, i \in 1..Len(Frame(Cur)) :
      LET L == Frame(Cur)[i][1]
          R == Frame(Cur)[i][2]
          D == Frame(Cur)[i][3]
          Unchanged(lh, rh, red) ==
            red.ok /\ red.lhs = <<lh.e>> /\ red.rhs = <<rh.e>>
          Simplified(lh, rh, r) ==
            Unchanged(lh, rh, reduce_eq(lh.e, rh.e)) =>
              (~r.ret /\ Frame(r.S) = Frame(Cur))
          Right(lh, rh) == Simplified(lh, rh, simplify_eq(CurIn(o), L, R, D))
          Left(lh) == Right(lh, canonize(lh.S, R, lh.eqs))
      IN Left(canonize(CurIn(o), L, D))

\* C23: simplify_and_solve_eqs comes to an end on every reachable store; it
\* returns true exactly when the top pending-equation frame it leaves differs
\* from the one it was given; and when it leaves the host consistent, every
\* equation still pending is one on which simplify_eq returns false and
\* solve_unit_eq returns false.
AtFixpoint(S) ==
  \A i \in 1..Len(Frame(S)) :
    /\ ~simplify_eq(S, Frame(S)[i][1], Frame(S)[i][2], Frame(S)[i][3]).ret
    /\ ~solve_unit_eq(S, Frame(S)[i][1], Frame(S)[i][2], Frame(S)[i][3]).ret
C23_Fixpoint ==
  Running =>
    \A o \in ArgOrders :
      LET Returned(r) ==
            /\ r.change <=> (Frame(r.S) # Frame(Cur))
            /\ ~r.S.ctx.inconsistent => AtFixpoint(r.S)
      IN Returned(simplify_and_solve_eqs(CurIn(o)))
C23_Witness ==
  /\ ctx.status = "FC_CONTINUE"
  /\ ~ctx.inconsistent
  /\ Len(Frame(Cur)) >= 1
  /\ Back(m_lhs)[1] = Concat(X, Y)
  /\ AtFixpoint(Cur)

\* C24: the exclusion table holds every unordered pair at most once, with the
\* term of lower id first and never a term paired with itself, and its trail
\* lists exactly the pairs of the table, each once.  Recording a pair that is
\* present, in either order, leaves table and trail as they are; so opening
\* a scope, recording a disequality and closing the scope gives back the
\* table as it was: a pair present before is still present, a pair recorded
\* first inside the scope is absent.
ExclusionTerms == {X, Y, Empty, StrB}
TableShape(ex) ==
  /\ \A p \in ex.m_table :
       p[1] # p[2] /\ ~IdGreater(p[1], p[2]) /\ <<p[2], p[1]>> \notin ex.m_table
  /\ Len(ex.m_lhs) = Len(ex.m_rhs)
  /\ ex.m_table = {<<ex.m_lhs[i], ex.m_rhs[i]>> : i \in 1..Len(ex.m_lhs)}
  /\ Cardinality(ex.m_table) = Len(ex.m_lhs)
C24_ExclusionTable ==
  /\ TableShape(m_exclude)
  /\ \A a \in ExclusionTerms, b \in ExclusionTerms :
       LET present == exclusion_table_contains(m_exclude, a, b)
           Closed(after) ==
             /\ exclusion_table_contains(after.m_exclude, a, b) <=> present
             /\ after.m_exclude = m_exclude
           Scoped(inside) ==
             /\ TableShape(inside.m_exclude)
             /\ a # b => /\ exclusion_table_contains(inside.m_exclude, a, b)
                         /\ exclusion_table_contains(inside.m_exclude, b, a)
             /\ Closed(pop_scope_eh(inside, 1))
       IN /\ exclusion_table_update(m_exclude, a, a) = m_exclude
          /\ present => /\ exclusion_table_contains(m_exclude, b, a)
                        /\ exclusion_table_update(m_exclude, a, b) = m_exclude
                        /\ exclusion_table_update(m_exclude, b, a) = m_exclude
          /\ Scoped(new_diseq_eh(push_scope_eh(Cur), a, b))
C24_Witness ==
  /\ m_exclude.m_table = {<<Empty, X>>} \/ m_exclude.m_table = {<<X, Empty>>}
  /\ Len(m_exclude.m_limit) = MaxScopes
  /\ m_exclude.m_limit[1] = 1
  /\ m_ineqs = <<Eq(X, Empty)>>

\* C25: there is one pending-equation frame per open scope plus one; in every
\* frame the lhs, rhs and dependency arrays have the same length, also after
\* any swap-with-last removal of pre_process_eqs; push_scope_eh makes the new
\* top frame a copy of the previous top; and every step leaves the frames
\* below the top as they are, so a frame is found unchanged when a pop makes
\* it the top again.
ScopeDepth == Len(m_trail_stack.m_scopes)
Aligned(S) ==
  /\ Len(S.m_lhs) = Len(S.m_rhs) /\ Len(S.m_lhs) = Len(S.m_deps)
  /\ \A k \in 1..Len(S.m_lhs) :
       Len(S.m_lhs[k]) = Len(S.m_rhs[k]) /\ Len(S.m_lhs[k]) = Len(S.m_deps[k])
FramesOf(S) == [k \in 1..Len(S.m_lhs) |-> <<S.m_lhs[k], S.m_rhs[k], S.m_deps[k]>>]
FrameShape ==
  /\ Len(m_lhs) = ScopeDepth + 1
  /\ ScopeDepth = Len(saved)
  /\ Aligned(Cur)
  /\ \A i \in 1..Len(Back(m_lhs)) :
       LET Removed(S) ==
             /\ Aligned(S)
             /\ Len(Frame(S)) = Len(Frame(Cur)) - 1
             /\ Entries(Frame(S)) \subseteq Entries(Frame(Cur))
             /\ SubSeq(FramesOf(S), 1, ScopeDepth) = SubSeq(FramesOf(Cur), 1, ScopeDepth)
       IN Removed(RemoveEq(Cur, i))
  /\ LET Pushed(S) ==
           /\ Aligned(S)
           /\ Len(S.m_lhs) = Len(m_lhs) + 1
           /\ Frame(S) = Frame(Cur)
           /\ SubSeq(FramesOf(S), 1, Len(m_lhs)) = FramesOf(Cur)
     IN Pushed(push_scope_eh(Cur))
FrameStep ==
  LET before == <<m_lhs, m_rhs, m_deps>>
      after == <<m_lhs', m_rhs', m_deps'>>
      kept == IF Len(m_lhs') <= Len(m_lhs) THEN Len(m_lhs') - 1 ELSE Len(m_lhs)
  IN /\ \A a \in 1..3 : SubSeq(after[a], 1, kept) = SubSeq(before[a], 1, kept)
     /\ Len(m_lhs') > Len(m_lhs) =>
          /\ Len(m_lhs') = Len(m_lhs) + 1
          /\ \A a \in 1..3 : Back(after[a]) = Back(before[a])
     /\ Len(m_lhs') < Len(m_lhs) =>
          \A a \in 1..3 : after[a] = SubSeq(before[a], 1, Len(m_lhs'))
C25_Frames == [][FrameStep]_vars /\ []FrameShape
C25_Witness ==
  /\ Len(m_lhs) = MaxScopes + 1
  /\ Len(m_lhs[1]) = 1
  /\ Len(m_lhs[2]) = 2
  /\ Back(m_lhs) = <<>>

\* C26: internalize_term sets the incompleteness flag for every term of the
\* sequence family that is not a concatenation, string literal, empty
\* sequence, unit, prefix, suffix, contains or skolem term (so for length,
\* indexof, replace, extract and regex membership) and leaves it alone for
\* the others; while such a term is an enode of a scope still open the flag
\* is set, and final_check_eh does not return FC_DONE.
Unsupported(t) ==
  /\ IsSeqFamily(t)
  /\ Tag(t) \notin {"concat", "str", "empty", "unit", "prefix", "suffix", "contains",
                    "skolem"}
UnsupportedTerms ==
  {Length(X), Index(X, Y), Replace(X, Y, StrA), Extract(X, <<"int", 0>>, <<"int", 1>>),
   InRe(X, Re), Length(Concat(X, Y))}
SupportedTerms ==
  {Concat(X, Y), StrAB, Empty, <<"unit", X>>, Prefix(X, StrAB), Suffix(StrA, X),
   Contains(StrB, X), <<"skolem", m_left_sym, <<X>>>>}
C26_Incomplete ==
  Running =>
    /\ \A t \in UnsupportedTerms :
         LET Internalized(S) == S.m_incomplete /\ t \in Enodes(S.ctx)
         IN Unsupported(t) /\ Internalized(internalize_term(Cur, t))
    /\ \A t \in SupportedTerms :
         LET Internalized(S) == S.m_incomplete = m_incomplete /\ t \in Enodes(S.ctx)
         IN ~Unsupported(t) /\ Internalized(internalize_term(Cur, t))
    /\ (\E t \in Enodes(ctx) : Unsupported(t)) =>
         /\ m_incomplete
         /\ ctx.status # "FC_DONE"
         /\ \A answer \in BOOLEAN, o \in ArgOrders :
              final_check_eh(CurIn(o), answer).status # "FC_DONE"
C26_Witness ==
  /\ ctx.status = "FC_GIVEUP"
  /\ Length(X) \in Enodes(ctx)
  /\ m_incomplete
  /\ Back(m_lhs) = <<>>
  /\ X \in DOMAIN m_rep.m_map

====
